---- MODULE Spec2Model ----
(***************************************************************************)
(* Model of the tag library (github.com/dhowden/tag): the format           *)
(* dispatcher ReadFrom, the decoders it selects, the ID3v2                 *)
(* unsynchronisation filter and the metadata-invariant checksums.          *)
(* Byte strings are sequences of naturals in 0..255.                       *)
(***************************************************************************)
EXTENDS Integers, Sequences, FiniteSets, TLC

\* ------------------------------------------------------------------ bounds
\* longest input handed to the unsynchronisation filter
MaxInput == 5
\* largest buffer length passed to one Read call
MaxBuf == 3

\* ------------------------------------------------------------ byte strings
Nil == "nil"

\* With(e, LAMBDA x : body) is the body with x bound to the value of e: a
\* local variable of the source that is assigned once
With(value, body(_)) == body(value)

Min(a, b) == IF a < b THEN a ELSE b
Max(a, b) == IF a > b THEN a ELSE b

\* b[from:to] of Go (0-based, half open); the caller guarantees the bounds
Slice(b, from, to) == SubSeq(b, from + 1, to)

\* all byte strings over alphabet S of length at most n
RECURSIVE SeqsUpTo(_, _)
SeqsUpTo(S, n) ==
  IF n = 0 THEN {<<>>}
  ELSE With(SeqsUpTo(S, n - 1), LAMBDA shorter :
         shorter \cup {Append(s, x) : s \in {t \in shorter : Len(t) = n - 1}, x \in S})

\* ------------------------------------------------------- ASCII literals

\* the string literals of the code, as bytes
Lit ==
  [ fLaC |-> <<102, 76, 97, 67>>,
   OggS |-> <<79, 103, 103, 83>>,
   ftypM4A |-> <<102, 116, 121, 112, 77, 52, 65>>,
   ID3 |-> <<73, 68, 51>>,
   TAG |-> <<84, 65, 71>>,
   vendor |-> <<118, 101, 110, 100, 111, 114>>,
   image_jpeg |-> <<105, 109, 97, 103, 101, 47, 106, 112, 101, 103>>,
   image_png |-> <<105, 109, 97, 103, 101, 47, 112, 110, 103>>,
   image_gif |-> <<105, 109, 97, 103, 101, 47, 103, 105, 102>>,
   jpg |-> <<106, 112, 103>>,
   png |-> <<112, 110, 103>>,
   gif |-> <<103, 105, 102>>,
   mean |-> <<109, 101, 97, 110>>,
   name |-> <<110, 97, 109, 101>>,
   data |-> <<100, 97, 116, 97>>,
   com_apple_iTunes |-> <<99, 111, 109, 46, 97, 112, 112, 108, 101, 46, 105, 84, 117, 110, 101, 115>>,
   dashes |-> <<45, 45, 45, 45>>,
   moov |-> <<109, 111, 111, 118>>,
   udta |-> <<117, 100, 116, 97>>,
   ilst |-> <<105, 108, 115, 116>>,
   meta |-> <<109, 101, 116, 97>>,
   mdat |-> <<109, 100, 97, 116>>,
   free |-> <<102, 114, 101, 101>>,
   count |-> <<95, 99, 111, 117, 110, 116>>,
   image_slash |-> <<105, 109, 97, 103, 101, 47>>,
   jpeg |-> <<106, 112, 101, 103>>,
   COMM |-> <<67, 79, 77, 77>>,
   USLT |-> <<85, 83, 76, 84>>,
   APIC |-> <<65, 80, 73, 67>>,
   PIC |-> <<80, 73, 67>>,
   Xing |-> <<88, 105, 110, 103>>,
   Info |-> <<73, 110, 102, 111>>,
   stream_type |-> <<115, 116, 114, 101, 97, 109, 95, 116, 121, 112, 101>>,
   stream_bitrate |-> <<115, 116, 114, 101, 97, 109, 95, 98, 105, 116, 114, 97, 116, 101>>,
   stream_audio |-> <<115, 116, 114, 101, 97, 109, 95, 97, 117, 100, 105, 111>>,
   stream_size |-> <<115, 116, 114, 101, 97, 109, 95, 115, 105, 122, 101>>,
   stream_length |-> <<115, 116, 114, 101, 97, 109, 95, 108, 101, 110, 103, 116, 104>>,
   title |-> <<116, 105, 116, 108, 101>>,
   artist |-> <<97, 114, 116, 105, 115, 116>>,
   album |-> <<97, 108, 98, 117, 109>>,
   performer |-> <<112, 101, 114, 102, 111, 114, 109, 101, 114>>,
   composer |-> <<99, 111, 109, 112, 111, 115, 101, 114>>,
   genre |-> <<103, 101, 110, 114, 101>>,
   tracknumber |-> <<116, 114, 97, 99, 107, 110, 117, 109, 98, 101, 114>>,
   tracktotal |-> <<116, 114, 97, 99, 107, 116, 111, 116, 97, 108>>,
   discnumber |-> <<100, 105, 115, 99, 110, 117, 109, 98, 101, 114>>,
   disctotal |-> <<100, 105, 115, 99, 116, 111, 116, 97, 108>>,
   TT2 |-> <<84, 84, 50>>,
   TIT2 |-> <<84, 73, 84, 50>>,
   TP1 |-> <<84, 80, 49>>,
   TPE1 |-> <<84, 80, 69, 49>>,
   TAL |-> <<84, 65, 76>>,
   TALB |-> <<84, 65, 76, 66>>,
   TP2 |-> <<84, 80, 50>>,
   TPE2 |-> <<84, 80, 69, 50>>,
   TCM |-> <<84, 67, 77>>,
   TCOM |-> <<84, 67, 79, 77>>,
   TDA |-> <<84, 68, 65>>,
   TDAT |-> <<84, 68, 65, 84>>,
   TYE |-> <<84, 89, 69>>,
   TYER |-> <<84, 89, 69, 82>>,
   TRK |-> <<84, 82, 75>>,
   TRCK |-> <<84, 82, 67, 75>>,
   TPA |-> <<84, 80, 65>>,
   TPOS |-> <<84, 80, 79, 83>>,
   TCO |-> <<84, 67, 79>>,
   TCON |-> <<84, 67, 79, 78>>,
   COM |-> <<67, 79, 77>>,
   TDRC |-> <<84, 68, 82, 67>>,
   vorbis |-> <<118, 111, 114, 98, 105, 115>>,
   M4A_ |-> <<77, 52, 65, 32>>,
   ftyp |-> <<102, 116, 121, 112>>,
   TITLE_T |-> <<84, 73, 84, 76, 69, 61, 84>>,
   track_1 |-> <<116, 114, 97, 99, 107, 110, 117, 109, 98, 101, 114, 61, 49>>,
   T |-> <<84>>]

\* the atom names that are keys of the table atoms (mp4.go), as bytes
AtomKey ==
  [ alb |-> <<169, 97, 108, 98>>,
   art |-> <<169, 97, 114, 116>>,
   ART |-> <<169, 65, 82, 84>>,
   aART |-> <<97, 65, 82, 84>>,
   day |-> <<169, 100, 97, 121>>,
   nam |-> <<169, 110, 97, 109>>,
   gen |-> <<169, 103, 101, 110>>,
   gnre |-> <<103, 110, 114, 101>>,
   geID |-> <<103, 101, 73, 68>>,
   trkn |-> <<116, 114, 107, 110>>,
   wrt |-> <<169, 119, 114, 116>>,
   too |-> <<169, 116, 111, 111>>,
   cprt |-> <<99, 112, 114, 116>>,
   covr |-> <<99, 111, 118, 114>>,
   grp |-> <<169, 103, 114, 112>>,
   keyw |-> <<107, 101, 121, 119>>,
   lyr |-> <<169, 108, 121, 114>>,
   cmt |-> <<169, 99, 109, 116>>,
   tmpo |-> <<116, 109, 112, 111>>,
   cpil |-> <<99, 112, 105, 108>>,
   disk |-> <<100, 105, 115, 107>>]

\* ------------------------------------------------------------------ errors
EOF == "EOF"
ErrUnexpectedEOF == "unexpected EOF"
ErrNegativePosition == "bytes.Reader.Seek: negative position"
ErrNoTagsFound == "no tags found"
ErrNotID3v1 == "invalid ID3v1 tag"
\* a run-time panic (index out of range, negative make length, failed type
\* assertion): the call does not return
Panic == "panic"

\* the nil Metadata
NoMeta == [kind |-> "nil"]

\* --------------------------------------------------- stream primitives
\* A stream is the byte string d of a bytes.Reader and its position q.

\* r.Seek(off, io.SeekCurrent) / r.Seek(off, io.SeekStart) / r.Seek(off, io.SeekEnd)
Seek(d, base, off) ==
  IF base + off < 0 THEN [err |-> ErrNegativePosition, pos |-> base]
  ELSE [err |-> Nil, pos |-> base + off]

\* The integers of the model checker end at 2^31 - 1. A greater value of the
\* program is represented by TooBig, which like it exceeds the length of
\* every stream and every size a stream can hold below it.
TooBig == 2000000000

getInt(b) ==
  LET RECURSIVE go(_, _)
      go(i, n) == IF i > Len(b) THEN n
                  ELSE IF n >= TooBig \div 256 THEN TooBig
                  ELSE go(i + 1, Min(n * 256 + b[i], TooBig))
  IN  go(1, 0)

get7BitChunkedInt(b) ==
  LET RECURSIVE go(_, _)
      \* n = n << 7; n |= int(x): the low 7 bits of n << 7 are zero, and bit 7
      \* of x is or-ed onto bit 0 of the previous chunk
      go(i, n) ==
        IF i > Len(b) THEN n
        ELSE go(i + 1, n * 128 + (b[i] % 128)
                       + (IF b[i] >= 128 /\ n % 2 = 0 THEN 128 ELSE 0))
  IN  go(1, 0)

getBit(b, n) == (b \div (2 ^ n)) % 2 = 1

\* little-endian unsigned integer
getIntLE(b) ==
  LET RECURSIVE go(_, _)
      go(i, n) == IF i < 1 THEN n
                  ELSE IF n >= TooBig \div 256 THEN TooBig
                  ELSE go(i - 1, Min(n * 256 + b[i], TooBig))
  IN  go(Len(b), 0)

\* readBytes: make([]byte, n) and io.ReadFull on a bytes.Reader
readBytes(d, q, n) ==
  IF n < 0 THEN [err |-> Panic, pos |-> q, b |-> <<>>]
  ELSE IF n = 0 THEN [err |-> Nil, pos |-> q, b |-> <<>>]
  ELSE IF q >= Len(d) THEN [err |-> EOF, pos |-> q, b |-> <<>>]
  ELSE IF q + n > Len(d) THEN [err |-> ErrUnexpectedEOF, pos |-> Len(d), b |-> <<>>]
  ELSE [err |-> Nil, pos |-> q + n, b |-> Slice(d, q, q + n)]

readString(d, q, n) == readBytes(d, q, n)

readInt(d, q, n) ==
  With(readBytes(d, q, n), LAMBDA r :
    [err |-> r.err, pos |-> r.pos, n |-> IF r.err = Nil THEN getInt(r.b) ELSE 0])

readInt32LittleEndian(d, q) ==
  With(readBytes(d, q, 4), LAMBDA r :
    [err |-> r.err, pos |-> r.pos, n |-> IF r.err = Nil THEN getIntLE(r.b) ELSE 0])

\* index of the first occurrence of sep in b at or after 0-based index i,
\* or -1 (bytes.Index)
RECURSIVE IndexFrom(_, _, _)
IndexFrom(b, sep, i) ==
  IF i + Len(sep) > Len(b) THEN -1
  ELSE IF SubSeq(b, i + 1, i + Len(sep)) = sep THEN i
  ELSE IndexFrom(b, sep, i + 1)

\* strings.ToLower on the ASCII letters
ToLower(s) == [i \in 1..Len(s) |-> IF s[i] >= 65 /\ s[i] <= 90 THEN s[i] + 32 ELSE s[i]]

\* map update m[k] = v
Put(m, k, v) == (k :> v) @@ m
EmptyMap == <<>>
Has(m, k) == k \in DOMAIN m

\* -------------------------------------------- Vorbis comments (flac.go)
\* strings.SplitN(c, "=", 2)
\* the index of the last occurrence of the byte x in c, -1 if there is none
LastIndexByte(c, x) ==
  IF \E i \in 1..Len(c) : c[i] = x
  THEN (CHOOSE i \in 1..Len(c) : c[i] = x /\ \A j \in (i + 1)..Len(c) : c[j] # x) - 1
  ELSE -1

\* variant that splits a comment at its last '='
parseCommentLastEq(c) ==
  With(LastIndexByte(c, 61), LAMBDA i :
    IF i < 0 THEN [err |-> "vorbis comment must contain '='", k |-> <<>>, v |-> <<>>]
    ELSE [err |-> Nil, k |-> Slice(c, 0, i), v |-> Slice(c, i + 1, Len(c))])

parseComment(c) ==
  With(IndexFrom(c, <<61>>, 0), LAMBDA i :
    IF i < 0 THEN [err |-> "vorbis comment must contain '='", k |-> <<>>, v |-> <<>>]
    ELSE [err |-> Nil, k |-> Slice(c, 0, i), v |-> Slice(c, i + 1, Len(c))])

\* the comment loop of readVorbisComment: n comments are still to be read
RECURSIVE readComments(_, _, _, _)
readComments(d, q, n, c) ==
  IF n <= 0 THEN [err |-> Nil, pos |-> q, c |-> c]
  ELSE With(readInt32LittleEndian(d, q), LAMBDA l :
         IF l.err # Nil THEN [err |-> l.err, pos |-> l.pos, c |-> c]
         ELSE With(readString(d, l.pos, l.n), LAMBDA s :
                IF s.err # Nil THEN [err |-> s.err, pos |-> s.pos, c |-> c]
                ELSE With(parseComment(s.b), LAMBDA kv :
                       IF kv.err # Nil THEN [err |-> kv.err, pos |-> s.pos, c |-> c]
                       ELSE readComments(d, s.pos, n - 1, Put(c, ToLower(kv.k), kv.v)))))

readVorbisComment(d, q, c) ==
  With(readInt32LittleEndian(d, q), LAMBDA vendorLen :
    IF vendorLen.err # Nil THEN [err |-> vendorLen.err, pos |-> vendorLen.pos, c |-> c]
    ELSE With(readString(d, vendorLen.pos, vendorLen.n), LAMBDA vendor :
           IF vendor.err # Nil THEN [err |-> vendor.err, pos |-> vendor.pos, c |-> c]
           ELSE With(Put(c, Lit.vendor, vendor.b), LAMBDA c1 :
                  With(readInt32LittleEndian(d, vendor.pos), LAMBDA commentsLen :
                    IF commentsLen.err # Nil
                    THEN [err |-> commentsLen.err, pos |-> commentsLen.pos, c |-> c1]
                    ELSE readComments(d, commentsLen.pos, commentsLen.n, c1)))))

\* ------------------------------------------------------ FLAC (flac.go)
VorbisCommentBlock == 4
PictureBlock == 6
\* number of entries of pictureTypes (codes 0x00..0x14)
NumPictureTypes == 21

NoPicture == [t |-> "nil"]

MimeExt(mime) ==
  IF mime = Lit.image_jpeg THEN Lit.jpg
  ELSE IF mime = Lit.image_png THEN Lit.png
  ELSE IF mime = Lit.image_gif THEN Lit.gif
  ELSE <<>>

\* reads k consecutive 4-byte integers that are discarded
RECURSIVE skipInts(_, _, _)
skipInts(d, q, k) ==
  IF k = 0 THEN [err |-> Nil, pos |-> q]
  ELSE With(readInt(d, q, 4), LAMBDA r :
         IF r.err # Nil THEN [err |-> r.err, pos |-> r.pos] ELSE skipInts(d, r.pos, k - 1))

readPictureBlock(d, q) ==
  With(readInt(d, q, 4), LAMBDA b :
    LET fail(e, at) == [err |-> e, pos |-> at, p |-> NoPicture]
    IN  IF b.err # Nil THEN fail(b.err, b.pos)
        ELSE IF (b.n % 256) >= NumPictureTypes THEN fail("invalid picture type", b.pos)
        ELSE With(readInt(d, b.pos, 4), LAMBDA mimeLen :
               IF mimeLen.err # Nil THEN fail(mimeLen.err, mimeLen.pos)
               ELSE With(readString(d, mimeLen.pos, mimeLen.n), LAMBDA mime :
                      IF mime.err # Nil THEN fail(mime.err, mime.pos)
                      ELSE With(readInt(d, mime.pos, 4), LAMBDA descLen :
                             IF descLen.err # Nil THEN fail(descLen.err, descLen.pos)
                             ELSE With(readString(d, descLen.pos, descLen.n), LAMBDA desc :
                                    IF desc.err # Nil THEN fail(desc.err, desc.pos)
                                    ELSE With(skipInts(d, desc.pos, 4), LAMBDA dims :
                                           IF dims.err # Nil THEN fail(dims.err, dims.pos)
                                           ELSE With(readInt(d, dims.pos, 4), LAMBDA dataLen :
                                                  IF dataLen.err # Nil THEN fail(dataLen.err, dataLen.pos)
                                                  ELSE With(readBytes(d, dataLen.pos, dataLen.n), LAMBDA data :
                                                         IF data.err # Nil THEN fail(data.err, data.pos)
                                                         ELSE [err |-> Nil, pos |-> data.pos,
                                                               p |-> [t |-> "Picture", Ext |-> MimeExt(mime.b),
                                                                      MIMEType |-> mime.b, Type |-> b.n % 256,
                                                                      Description |-> desc.b, Data |-> data.b]]))))))))

\* one metadata block; m is the metadataFLAC built so far
readFLACMetadataBlock(d, q, m) ==
  With(readBytes(d, q, 1), LAMBDA blockHeader :
    IF blockHeader.err # Nil THEN [err |-> blockHeader.err, pos |-> blockHeader.pos, last |-> FALSE, m |-> m]
    ELSE With(getBit(blockHeader.b[1], 7), LAMBDA last :
           LET type == blockHeader.b[1] % 128
           IN  With(readInt(d, blockHeader.pos, 3), LAMBDA blockLen :
                 IF blockLen.err # Nil THEN [err |-> blockLen.err, pos |-> blockLen.pos, last |-> last, m |-> m]
                 ELSE IF type = VorbisCommentBlock
                      THEN With(readVorbisComment(d, blockLen.pos, m.c), LAMBDA r :
                             [err |-> r.err, pos |-> r.pos, last |-> last, m |-> [m EXCEPT !.c = r.c]])
                 ELSE IF type = PictureBlock
                      THEN With(readPictureBlock(d, blockLen.pos), LAMBDA r :
                             [err |-> r.err, pos |-> r.pos, last |-> last,
                              m |-> IF r.err = Nil THEN [m EXCEPT !.p = r.p] ELSE m])
                 ELSE With(Seek(d, blockLen.pos, blockLen.n), LAMBDA r :
                        [err |-> r.err, pos |-> r.pos, last |-> last, m |-> m]))))

\* one iteration of the block loop of ReadFLACTags
readFLACBlocksStep(d, q, m) ==
  With(readFLACMetadataBlock(d, q, m), LAMBDA r :
    IF r.err # Nil THEN [done |-> TRUE, r |-> [meta |-> NoMeta, err |-> r.err, pos |-> r.pos]]
    ELSE IF r.last THEN [done |-> TRUE, r |-> [meta |-> r.m, err |-> Nil, pos |-> r.pos]]
    ELSE [done |-> FALSE, q |-> r.pos, m |-> r.m])

RECURSIVE readFLACBlocks(_, _, _)
readFLACBlocks(d, q, m) ==
  With(readFLACBlocksStep(d, q, m), LAMBDA s :
    IF s.done THEN s.r ELSE readFLACBlocks(d, s.q, s.m))

\* ReadFLACTags seeks to the start of the stream itself
ReadFLACTags(d, q) ==
  With(readString(d, 0, 4), LAMBDA flac :
    IF flac.err # Nil THEN [meta |-> NoMeta, err |-> flac.err, pos |-> flac.pos]
    ELSE IF flac.b # Lit.fLaC THEN [meta |-> NoMeta, err |-> "expected 'fLaC'", pos |-> flac.pos]
    ELSE readFLACBlocks(d, flac.pos, [kind |-> "FLAC", c |-> EmptyMap, p |-> NoPicture]))

\* -------------------------------------------------------- OGG (ogg.go)
idType == 1
commentType == 3

Sum8(seg) ==
  LET RECURSIVE go(_, _)
      go(i, n) == IF i > Len(seg) THEN n ELSE go(i + 1, n + seg[i])
  IN  go(1, 0)

\* io.CopyN(buf, r, n) from a bytes.Reader
CopyN(d, q, n) ==
  IF n <= 0 THEN [err |-> Nil, pos |-> q, b |-> <<>>]
  ELSE IF q + n > Len(d) THEN [err |-> EOF, pos |-> Max(q, Len(d)), b |-> Slice(d, Min(q, Len(d)), Len(d))]
  ELSE [err |-> Nil, pos |-> q + n, b |-> Slice(d, q, q + n)]

\* one iteration of the page loop of readPackets
readPacketsStep(d, q, firstPage, buf) ==
  LET fail(e, at) == [done |-> TRUE, r |-> [err |-> e, pos |-> at, b |-> <<>>]]
  IN  With(readString(d, q, 4), LAMBDA oggs :
        IF oggs.err # Nil THEN fail(oggs.err, oggs.pos)
        ELSE IF oggs.b # Lit.OggS THEN fail("expected 'OggS'", oggs.pos)
        ELSE With(readBytes(d, oggs.pos, 22), LAMBDA head :
               IF head.err # Nil THEN fail(head.err, head.pos)
               ELSE LET continuation == (head.b[2] % 2 = 1)
                    IN  IF ~(firstPage \/ continuation)
                        THEN With(Seek(d, head.pos, -26), LAMBDA s :
                               IF s.err # Nil THEN fail(s.err, s.pos)
                               ELSE [done |-> TRUE, r |-> [err |-> Nil, pos |-> s.pos, b |-> buf]])
                        ELSE With(readInt(d, head.pos, 1), LAMBDA nS :
                               IF nS.err # Nil THEN fail(nS.err, nS.pos)
                               ELSE With(readBytes(d, nS.pos, nS.n), LAMBDA segments :
                                      IF segments.err # Nil THEN fail(segments.err, segments.pos)
                                      ELSE With(CopyN(d, segments.pos, Sum8(segments.b)), LAMBDA c :
                                             IF c.err # Nil THEN fail(c.err, c.pos)
                                             ELSE [done |-> FALSE, q |-> c.pos, firstPage |-> FALSE,
                                                   buf |-> buf \o c.b])))))

\* the page loop of readPackets
RECURSIVE readPacketsLoop(_, _, _, _)
readPacketsLoop(d, q, firstPage, buf) ==
  With(readPacketsStep(d, q, firstPage, buf), LAMBDA s :
    IF s.done THEN s.r ELSE readPacketsLoop(d, s.q, s.firstPage, s.buf))

\* variant that does not treat the first page read as the first page
readPacketsNoFirst(d, q) == readPacketsLoop(d, q, FALSE, <<>>)

readPackets(d, q) == readPacketsLoop(d, q, TRUE, <<>>)

\* metadataVorbis.readVorbisComment on the reassembled packet
metadataVorbis_readVorbisComment(d, q, c) == readVorbisComment(d, q, c)

\* ReadOGGTags reads from the position the stream has on entry
ReadOGGTags(d, q) ==
  LET fail(e, at) == [meta |-> NoMeta, err |-> e, pos |-> at]
  IN  With(readString(d, q, 4), LAMBDA oggs :
        IF oggs.err # Nil THEN fail(oggs.err, oggs.pos)
        ELSE IF oggs.b # Lit.OggS THEN fail("expected 'OggS'", oggs.pos)
        ELSE With(Seek(d, oggs.pos, 22), LAMBDA s1 :
               With(readInt(d, s1.pos, 1), LAMBDA nS :
                 IF nS.err # Nil THEN fail(nS.err, nS.pos)
                 ELSE With(Seek(d, nS.pos, nS.n), LAMBDA s2 :
                        With(readInt(d, s2.pos, 1), LAMBDA t :
                          IF t.err # Nil THEN fail(t.err, t.pos)
                          ELSE IF t.n # idType THEN fail("expected 'vorbis' identification type 1", t.pos)
                          ELSE With(Seek(d, t.pos, 29), LAMBDA s3 :
                                 With(readPackets(d, s3.pos), LAMBDA ch :
                                   IF ch.err # Nil THEN fail(ch.err, ch.pos)
                                   ELSE With(readInt(ch.b, 0, 1), LAMBDA t2 :
                                          IF t2.err # Nil THEN fail(t2.err, ch.pos)
                                          ELSE IF t2.n # commentType
                                               THEN fail("expected 'vorbis' comment type 3", ch.pos)
                                          ELSE With(Seek(ch.b, t2.pos, 6), LAMBDA s4 :
                                                 With(metadataVorbis_readVorbisComment(ch.b, s4.pos, EmptyMap), LAMBDA r :  \* return m, err
                                                   [meta |-> [kind |-> "VORBIS", c |-> r.c, p |-> NoPicture],
                                                    err |-> r.err, pos |-> ch.pos]))))))))))

\* -------------------------------------------------------- MP4 (mp4.go)

\* the keys of the table atoms
atoms == {AtomKey.alb, AtomKey.art, AtomKey.ART, AtomKey.aART, AtomKey.day, AtomKey.nam, AtomKey.gen, AtomKey.gnre, AtomKey.geID, AtomKey.trkn, AtomKey.wrt,
          AtomKey.too, AtomKey.cprt, AtomKey.covr, AtomKey.grp, AtomKey.keyw, AtomKey.lyr, AtomKey.cmt, AtomKey.tmpo, AtomKey.cpil, AtomKey.disk}

\* atomTypes: class code -> content type
atomTypes == (0 :> "implicit") @@ (1 :> "text") @@ (13 :> "jpeg") @@ (14 :> "png") @@ (21 :> "uint8")

ContentTypeName(contentType) == IF contentType = "jpeg" THEN Lit.jpeg ELSE Lit.png

pngHeader == <<137, 80, 78, 71, 13, 10, 26, 10>>

\* size - 8 on uint32: below 8 it wraps to 2^32 - 8 + size, represented by
\* TooBig + size
Sub8(size) == IF size >= 8 THEN size - 8 ELSE TooBig + size

StringVal(b) == [t |-> "string", v |-> b]
IntVal(n) == [t |-> "int", v |-> n]

\* strings.Join(list, ";")
Join(list) ==
  LET RECURSIVE go(_, _)
      go(i, acc) == IF i > Len(list) THEN acc ELSE go(i + 1, acc \o <<59>> \o list[i])
  IN  IF Len(list) = 0 THEN <<>> ELSE go(2, list[1])

HasPrefix(b, p) == Len(b) >= Len(p) /\ SubSeq(b, 1, Len(p)) = p

readAtomHeader(d, q) ==
  With(readBytes(d, q, 4), LAMBDA size :
    IF size.err # Nil THEN [err |-> size.err, pos |-> size.pos, name |-> <<>>, size |-> 0]
    ELSE With(readString(d, size.pos, 4), LAMBDA name :
           [err |-> name.err, pos |-> name.pos, name |-> name.b, size |-> getInt(size.b)]))

\* one iteration of the sub-atom loop of readCustomAtom, or what follows
\* the loop; sub holds subNames["mean"] and subNames["name"]
readCustomAtomStep(d, q, size, sub, data) ==
  LET fail(e, at) == [done |-> TRUE, r |-> [err |-> e, pos |-> at, name |-> <<>>, data |-> <<>>]]
      next(at, sz, sb, dt) == [done |-> FALSE, q |-> at, size |-> sz, sub |-> sb, data |-> dt]
  IN  IF size > 8
      THEN With(readAtomHeader(d, q), LAMBDA h :
             IF h.err # Nil THEN fail(h.err, h.pos)
             ELSE IF size < h.size THEN fail("--- invalid size", h.pos)
             ELSE With(readBytes(d, h.pos, Sub8(h.size)), LAMBDA b :
                    IF b.err # Nil THEN fail(b.err, b.pos)
                    ELSE IF Len(b.b) < 4 THEN fail("invalid encoding: expected at least 4 bytes", b.pos)
                    ELSE With(Slice(b.b, 4, Len(b.b)), LAMBDA v :
                           IF h.name = Lit.mean
                           THEN next(b.pos, size - h.size, [sub EXCEPT !.mean = v], data)
                           ELSE IF h.name = Lit.name
                           THEN next(b.pos, size - h.size, [sub EXCEPT !.name = v], data)
                           ELSE IF h.name = Lit.data
                           THEN next(b.pos, size - h.size, sub, Append(data, v))
                           ELSE next(b.pos, size - h.size, sub, data))))
      ELSE IF size # 8 THEN fail("---- atom out of bounds", q)
      ELSE IF sub.mean # Lit.com_apple_iTunes \/ sub.name = <<>> \/ Len(data) = 0
           THEN [done |-> TRUE, r |-> [err |-> Nil, pos |-> q, name |-> Lit.dashes, data |-> <<>>]]
      ELSE [done |-> TRUE, r |-> [err |-> Nil, pos |-> q, name |-> sub.name, data |-> data]]

\* the sub-atom loop of readCustomAtom
RECURSIVE readCustomAtomLoop(_, _, _, _, _)
readCustomAtomLoop(d, q, size, sub, data) ==
  With(readCustomAtomStep(d, q, size, sub, data), LAMBDA s :
    IF s.done THEN s.r ELSE readCustomAtomLoop(d, s.q, s.size, s.sub, s.data))

readCustomAtom(d, q, size) == readCustomAtomLoop(d, q, size, [mean |-> <<>>, name |-> <<>>], <<>>)

\* readAtomData stores into the map data of the metadataMP4
readAtomData(d, q, name, size, processedData, data) ==
  LET fail(e, at) == [err |-> e, pos |-> at, data |-> data]
                     \* the part from "if name == trkn" on, for payload b of type contentType
      tail(b, contentType0, at) ==
        IF name = AtomKey.trkn \/ name = AtomKey.disk
        THEN IF Len(b) < 6 THEN fail("invalid encoding: expected at least 6 bytes, for track and disk numbers", at)
             ELSE [err |-> Nil, pos |-> at,
                   data |-> Put(Put(data, name, IntVal(b[4])), name \o Lit.count, IntVal(b[6]))]
        ELSE With(IF contentType0 = "implicit" /\ name = AtomKey.covr /\ HasPrefix(b, pngHeader)
                  THEN "png" ELSE contentType0, LAMBDA contentType :
               IF contentType = "implicit"
               THEN IF name \in atoms THEN fail("unhandled implicit content type for required atom", at)
                    ELSE [err |-> Nil, pos |-> at, data |-> data]
               ELSE IF contentType = "text" THEN [err |-> Nil, pos |-> at, data |-> Put(data, name, StringVal(b))]
               ELSE IF contentType = "uint8"
               THEN IF Len(b) < 1 THEN fail("invalid encoding: expected at least 1 bytes, for integer tag data", at)
                    ELSE [err |-> Nil, pos |-> at, data |-> Put(data, name, IntVal(b[Len(b)]))]
               ELSE [err |-> Nil, pos |-> at,
                     data |-> Put(data, name, [t |-> "Picture", Ext |-> ContentTypeName(contentType),
                                               MIMEType |-> Lit.image_slash \o ContentTypeName(contentType),
                                               Type |-> -1, Description |-> <<>>, Data |-> b])])
  IN  IF Len(processedData) > 0 THEN tail(Join(processedData), "text", q)
      ELSE With(readBytes(d, q, size), LAMBDA r :
             IF r.err # Nil THEN fail(r.err, r.pos)
             ELSE IF Len(r.b) < 8 THEN fail("invalid encoding: expected at least 8 bytes", r.pos)
             ELSE With(Slice(r.b, 8, Len(r.b)), LAMBDA b :
                    IF Len(b) < 4 THEN fail("invalid encoding: expected at least 4 bytes, for class", r.pos)
                    ELSE IF name = AtomKey.gnre
                    THEN [err |-> Nil, pos |-> r.pos, data |-> Put(data, name, IntVal(b[Len(b)]))]
                    ELSE With(getInt(Slice(b, 1, 4)), LAMBDA class :
                           IF class \notin DOMAIN atomTypes THEN fail("invalid content type", r.pos)
                           ELSE IF Len(b) < 8
                           THEN fail("invalid encoding: expected at least 8 bytes, for atom version and flags", r.pos)
                           ELSE tail(Slice(b, 8, Len(b)), atomTypes[class], r.pos))))

\* one iteration of the loop of metadataMP4.readAtoms; entering a container
\* atom ends the iteration with the call of readAtoms on its content
readAtomsStep(d, q, data) ==
  LET stop(e, at, dt) == [done |-> TRUE, r |-> [err |-> e, pos |-> at, data |-> dt]]
      next(at, dt) == [done |-> FALSE, q |-> at, data |-> dt]
  IN  With(readAtomHeader(d, q), LAMBDA h :
        IF h.err # Nil
        THEN IF h.err = EOF THEN stop(Nil, h.pos, data) ELSE stop(h.err, h.pos, data)
        ELSE IF h.name = Lit.meta
        THEN With(readBytes(d, h.pos, 4), LAMBDA s :
               IF s.err # Nil THEN stop(s.err, s.pos, data) ELSE next(s.pos, data))
        ELSE IF h.name \in {Lit.moov, Lit.udta, Lit.ilst} THEN next(h.pos, data)
        ELSE With(IF h.name = Lit.dashes THEN readCustomAtom(d, h.pos, h.size)
                  ELSE [err |-> Nil, pos |-> h.pos, name |-> h.name, data |-> <<>>], LAMBDA custom :
               LET accepted == h.name = Lit.dashes /\ custom.name # Lit.dashes
                   ok == (h.name \in atoms) \/ accepted
                   size == IF accepted THEN 0 ELSE h.size
               IN  IF custom.err # Nil THEN stop(custom.err, custom.pos, data)
                   ELSE IF ~ok
                   THEN next(Seek(d, custom.pos, Sub8(size)).pos, data)
                   ELSE With(readAtomData(d, custom.pos, custom.name, Sub8(size), custom.data, data), LAMBDA r :
                          IF r.err # Nil THEN [done |-> TRUE, r |-> r] ELSE next(r.pos, r.data))))

\* metadataMP4.readAtoms: the loop, and the recursion into container atoms
RECURSIVE readAtoms(_, _, _)
readAtoms(d, q, data) ==
  With(readAtomsStep(d, q, data), LAMBDA s :
    IF s.done THEN s.r ELSE readAtoms(d, s.q, s.data))

\* ReadAtoms reads from the position the stream has on entry and returns
\* m together with err
ReadAtoms(d, q) ==
  With(readAtoms(d, q, EmptyMap), LAMBDA r :
    [meta |-> [kind |-> "MP4", data |-> r.data], err |-> r.err, pos |-> r.pos])

\* ------------------------------------- ID3v2 frame payloads (id3v2frames)
\* UTF-8 encoding of one code point (string(rune))
Utf8(cp) ==
  IF cp < 128 THEN <<cp>>
  ELSE IF cp < 2048 THEN <<192 + (cp \div 64), 128 + (cp % 64)>>
  ELSE IF cp < 65536 THEN <<224 + (cp \div 4096), 128 + ((cp \div 64) % 64), 128 + (cp % 64)>>
  ELSE <<240 + (cp \div 262144), 128 + ((cp \div 4096) % 64), 128 + ((cp \div 64) % 64), 128 + (cp % 64)>>

ReplacementChar == 65533

decodeISO8859(b) ==
  LET RECURSIVE go(_, _)
      go(i, acc) == IF i > Len(b) THEN acc ELSE go(i + 1, acc \o Utf8(b[i]))
  IN  go(1, <<>>)

\* utf16.Decode followed by string(): s is a sequence of 16-bit code units
utf16Decode(s) ==
  LET RECURSIVE go(_, _)
      go(i, acc) ==
        IF i > Len(s) THEN acc
        ELSE IF s[i] >= 55296 /\ s[i] < 56320 /\ i < Len(s) /\ s[i + 1] >= 56320 /\ s[i + 1] < 57344
             THEN go(i + 2, acc \o Utf8(65536 + (s[i] - 55296) * 1024 + (s[i + 1] - 56320)))
        ELSE IF s[i] >= 55296 /\ s[i] < 57344 THEN go(i + 1, acc \o Utf8(ReplacementChar))
        ELSE go(i + 1, acc \o Utf8(s[i]))
  IN  go(1, <<>>)

\* decodeUTF16: bo.Uint16(b[i:i+2]) for i = 0, 2, ...; an odd length makes the
\* last slice expression run past the end of b
decodeUTF16(b, bigEndian) ==
  IF Len(b) % 2 = 1 THEN [err |-> Panic, s |-> <<>>]
  ELSE [err |-> Nil,
        s |-> utf16Decode([i \in 1..(Len(b) \div 2) |->
                 IF bigEndian THEN b[2 * i - 1] * 256 + b[2 * i] ELSE b[2 * i] * 256 + b[2 * i - 1]])]

decodeUTF16WithBOM(b) ==
  IF b[1] = 254 /\ b[2] = 255 THEN decodeUTF16(Slice(b, 2, Len(b)), TRUE)
  ELSE IF b[1] = 255 /\ b[2] = 254 THEN decodeUTF16(Slice(b, 2, Len(b)), FALSE)
  ELSE [err |-> "invalid byte order marker", s |-> <<>>]

decodeText(enc, b) ==
  IF Len(b) = 0 THEN [err |-> Nil, s |-> <<>>]
  ELSE IF enc = 0 THEN [err |-> Nil, s |-> decodeISO8859(b)]
  ELSE IF enc = 1 THEN IF Len(b) = 1 THEN [err |-> Nil, s |-> <<>>] ELSE decodeUTF16WithBOM(b)
  ELSE IF enc = 2 THEN IF Len(b) = 1 THEN [err |-> Nil, s |-> <<>>] ELSE decodeUTF16(b, TRUE)
  ELSE IF enc = 3 THEN [err |-> Nil, s |-> b]
  ELSE [err |-> "invalid encoding byte", s |-> <<>>]

parseText(b) ==
  IF Len(b) = 0 THEN [err |-> Nil, s |-> <<>>]
  ELSE decodeText(b[1], Slice(b, 1, Len(b)))

\* strings.Join(strings.Split(txt, "\x00"), "")
RemoveNULs(s) == SelectSeq(s, LAMBDA x : x # 0)

readTFrame(b) ==
  With(parseText(b), LAMBDA txt :
    IF txt.err # Nil THEN [err |-> txt.err, v |-> StringVal(<<>>)]
    ELSE [err |-> Nil, v |-> StringVal(RemoveNULs(txt.s))])

encodingDelim(enc) ==
  IF enc \in {0, 3} THEN [err |-> Nil, delim |-> <<0>>]
  ELSE IF enc \in {1, 2} THEN [err |-> Nil, delim |-> <<0, 0>>]
  ELSE [err |-> "invalid encoding byte", delim |-> <<>>]

\* bytes.SplitN(b, sep, 2)
SplitN2(b, sep) ==
  With(IndexFrom(b, sep, 0), LAMBDA i :
    IF i < 0 THEN <<b>> ELSE <<Slice(b, 0, i), Slice(b, i + Len(sep), Len(b))>>)

dataSplit(b, enc) ==
  With(encodingDelim(enc), LAMBDA delim :
    IF delim.err # Nil THEN [err |-> delim.err, result |-> <<>>]
    ELSE With(SplitN2(b, delim.delim), LAMBDA result :
           IF Len(result) <= 1 THEN [err |-> Nil, result |-> result]
           \* result[1][0] on an empty second part
           ELSE IF Len(result[2]) = 0 THEN [err |-> Panic, result |-> <<>>]
           ELSE IF result[2][1] = 0
                THEN [err |-> Nil, result |-> <<result[1], Slice(result[2], 1, Len(result[2]))>>]
           ELSE [err |-> Nil, result |-> result]))

readTextWithDescrFrame(b) ==
  LET fail(e) == [err |-> e, v |-> [t |-> "Comm"]]
  IN  IF Len(b) < 4 THEN fail(Panic)  \* b[0], b[4:]
      ELSE LET enc == b[1]
           IN  With(dataSplit(Slice(b, 4, Len(b)), enc), LAMBDA descTextSplit :
                 IF descTextSplit.err # Nil THEN fail(descTextSplit.err)
                 ELSE With(decodeText(enc, descTextSplit.result[1]), LAMBDA desc :
                        IF desc.err = Panic THEN fail(Panic)
                        ELSE IF desc.err # Nil THEN fail("error decoding tag description text")
                        ELSE IF Len(descTextSplit.result) < 2 THEN fail(Panic)  \* descTextSplit[1]
                        ELSE With(decodeText(enc, descTextSplit.result[2]), LAMBDA text :
                               IF text.err = Panic THEN fail(Panic)
                               ELSE IF text.err # Nil THEN fail("error decoding tag text")
                               ELSE [err |-> Nil,
                                     v |-> [t |-> "Comm", Language |-> Slice(b, 1, 4),
                                            Description |-> desc.s, Text |-> text.s]])))

\* pictureTypes[picType], "" (here -1) for a code outside the table
PictureTypeName(picType) == IF picType < NumPictureTypes THEN picType ELSE -1

readPICFrame(b) ==
  LET fail(e) == [err |-> e, v |-> NoPicture]
  IN  IF Len(b) < 5 THEN fail(Panic)  \* b[0], b[1:4], b[4]
      ELSE LET enc == b[1]
           IN  With(Slice(b, 1, 4), LAMBDA ext :
                 With(dataSplit(Slice(b, 5, Len(b)), enc), LAMBDA descDataSplit :
                   IF descDataSplit.err # Nil THEN fail(descDataSplit.err)
                   ELSE With(decodeText(enc, descDataSplit.result[1]), LAMBDA desc :
                          IF desc.err = Panic THEN fail(Panic)
                          ELSE IF desc.err # Nil THEN fail("error decoding PIC description text")
                          ELSE IF Len(descDataSplit.result) < 2 THEN fail(Panic)  \* descDataSplit[1]
                          ELSE [err |-> Nil,
                                v |-> [t |-> "Picture", Ext |-> ext,
                                       MIMEType |-> IF ext = Lit.jpeg \/ ext = Lit.jpg THEN Lit.image_jpeg
                                                    ELSE IF ext = Lit.png THEN Lit.image_png ELSE <<>>,
                                       Type |-> PictureTypeName(b[5]), Description |-> desc.s,
                                       Data |-> descDataSplit.result[2]]])))

readAPICFrame(b0) ==
  LET fail(e) == [err |-> e, v |-> NoPicture]
  IN  IF Len(b0) < 1 THEN fail(Panic)  \* b[0]
      ELSE LET enc == b0[1]
           IN  With(SplitN2(Slice(b0, 1, Len(b0)), <<0>>), LAMBDA mimeDataSplit :
                 IF Len(mimeDataSplit) < 2 THEN fail(Panic)  \* mimeDataSplit[1]
                 ELSE LET mimeType == mimeDataSplit[1]
                          b == mimeDataSplit[2]
                      IN  IF Len(b) < 1 THEN fail(Panic)  \* b[0]
                          ELSE With(dataSplit(Slice(b, 1, Len(b)), enc), LAMBDA descDataSplit :
                                 IF descDataSplit.err # Nil THEN fail(descDataSplit.err)
                                 ELSE With(decodeText(enc, descDataSplit.result[1]), LAMBDA desc :
                                        IF desc.err = Panic THEN fail(Panic)
                                        ELSE IF desc.err # Nil THEN fail("error decoding APIC description text")
                                        ELSE IF Len(descDataSplit.result) < 2 THEN fail(Panic)
                                        ELSE [err |-> Nil,
                                              v |-> [t |-> "Picture",
                                                     Ext |-> IF mimeType = Lit.image_jpeg THEN Lit.jpg
                                                             ELSE IF mimeType = Lit.image_png THEN Lit.png ELSE <<>>,
                                                     MIMEType |-> mimeType, Type |-> PictureTypeName(b[1]),
                                                     Description |-> desc.s, Data |-> descDataSplit.result[2]]])))

\* --------------------------------------- unsynchroniser (id3v2 filter)
\* one iteration of the loop body once a byte b was read: is the byte
\* dropped, and the value of r.ff afterwards
UnsyncStepKeepFF(f, b) ==
  IF f /\ b = 0 THEN [drop |-> TRUE, ff |-> TRUE]
  ELSE [drop |-> FALSE, ff |-> (b = 255)]

UnsyncStep(f, b) ==
  IF f /\ b = 0 THEN [drop |-> TRUE, ff |-> FALSE]
  ELSE [drop |-> FALSE, ff |-> (b = 255)]

\* unsynchroniser.Read(p) with len(p) = k over the underlying bytes in,
\* starting at position q with r.ff = f and i bytes already stored in p
RECURSIVE UnsyncLoop(_, _, _, _, _)
UnsyncLoop(in, q, f, k, p) ==
  IF Len(p) >= k THEN [n |-> Len(p), err |-> Nil, pos |-> q, ff |-> f, p |-> p]
  ELSE IF q >= Len(in) THEN [n |-> Len(p), err |-> "EOF", pos |-> q, ff |-> f, p |-> p]
  ELSE LET b == in[q + 1]
       IN  With(UnsyncStep(f, b), LAMBDA s :
             IF s.drop THEN UnsyncLoop(in, q + 1, s.ff, k, p)
             ELSE UnsyncLoop(in, q + 1, s.ff, k, Append(p, b)))

UnsynchroniserRead(in, q, f, k) == UnsyncLoop(in, q, f, k, <<>>)

\* ---------------------------------------------------- ID3v2 (id3v2.go)
\* readBytes on the reader handed to readID3v2Frames: the stream itself, or
\* the unsynchroniser wrapped around it when us is set (io.ReadFull over
\* unsynchroniser.Read)
readBytesU(d, q, f, us, n) ==
  IF ~us THEN With(readBytes(d, q, n), LAMBDA r :
                [err |-> r.err, pos |-> r.pos, ff |-> f, b |-> r.b])
  ELSE IF n < 0 THEN [err |-> Panic, pos |-> q, ff |-> f, b |-> <<>>]
  ELSE IF n = 0 THEN [err |-> Nil, pos |-> q, ff |-> f, b |-> <<>>]
  ELSE With(UnsynchroniserRead(d, q, f, n), LAMBDA r :
         [err |-> IF r.err = Nil THEN Nil ELSE IF r.n > 0 THEN ErrUnexpectedEOF ELSE EOF,
          pos |-> r.pos, ff |-> r.ff, b |-> IF r.err = Nil THEN r.p ELSE <<>>])

readID3v2Header(d, q) ==
  With(readBytes(d, q, 10), LAMBDA r :
    LET none == [Version |-> "", Unsynchronisation |-> FALSE, ExtendedHeader |-> FALSE,
                 Experimental |-> FALSE, Size |-> 0]
    IN  IF r.err # Nil THEN [err |-> "expected to read 10 bytes (ID3v2Header)", pos |-> r.pos, h |-> none]
        ELSE IF Slice(r.b, 0, 3) # Lit.ID3 THEN [err |-> "expected to read \"ID3\"", pos |-> r.pos, h |-> none]
        ELSE IF r.b[4] \notin {2, 3, 4} THEN [err |-> "ID3 version: expected: 2, 3 or 4", pos |-> r.pos, h |-> none]
        ELSE [err |-> Nil, pos |-> r.pos,
              h |-> [Version |-> IF r.b[4] = 2 THEN "ID3v2.2" ELSE IF r.b[4] = 3 THEN "ID3v2.3" ELSE "ID3v2.4",
                     Unsynchronisation |-> getBit(r.b[6], 7),
                     ExtendedHeader |-> getBit(r.b[6], 6),
                     Experimental |-> getBit(r.b[6], 5),
                     Size |-> get7BitChunkedInt(Slice(r.b, 6, 10))]])

\* the frame header of the tag's version, with the flags of 2.3 and 2.4:
\* name, size, headerSize, whether flags were read, and the two format
\* flags the decoder looks at
readID3v2FrameHeader(d, q, f, us, version) ==
  LET nameLen == IF version = "ID3v2.2" THEN 3 ELSE 4
  IN  With(readBytesU(d, q, f, us, nameLen), LAMBDA name :
        LET fail(r) == [err |-> r.err, pos |-> r.pos, ff |-> r.ff, name |-> <<>>, size |-> 0, headerSize |-> 0,
                        hasFlags |-> FALSE, Unsynchronisation |-> FALSE, DataLengthIndicator |-> FALSE]
        IN  IF name.err # Nil THEN fail(name)
            ELSE With(readBytesU(d, name.pos, name.ff, us, nameLen), LAMBDA size :
                   IF size.err # Nil THEN fail(size)
                   ELSE With(IF version = "ID3v2.4" THEN get7BitChunkedInt(size.b) ELSE getInt(size.b), LAMBDA n :
                          IF version = "ID3v2.2"
                          THEN [err |-> Nil, pos |-> size.pos, ff |-> size.ff, name |-> name.b, size |-> n,
                                headerSize |-> 6, hasFlags |-> FALSE, Unsynchronisation |-> FALSE,
                                DataLengthIndicator |-> FALSE]
                          ELSE With(readBytesU(d, size.pos, size.ff, us, 2), LAMBDA flags :
                                 IF flags.err # Nil THEN fail(flags)
                                 ELSE [err |-> Nil, pos |-> flags.pos, ff |-> flags.ff, name |-> name.b,
                                       size |-> n, headerSize |-> 10, hasFlags |-> TRUE,
                                       Unsynchronisation |-> getBit(flags.b[2], 1),
                                       DataLengthIndicator |-> getBit(flags.b[2], 0)]))))

IsSpace(x) == x \in {9, 10, 11, 12, 13, 32}

RECURSIVE TrimLeft(_)
TrimLeft(s) == IF Len(s) > 0 /\ IsSpace(s[1]) THEN TrimLeft(Tail(s)) ELSE s
RECURSIVE TrimRight(_)
TrimRight(s) == IF Len(s) > 0 /\ IsSpace(s[Len(s)]) THEN TrimRight(SubSeq(s, 1, Len(s) - 1)) ELSE s
TrimSpace(s) == TrimRight(TrimLeft(s))

\* strconv.Itoa for n >= 0
RECURSIVE Itoa(_)
Itoa(n) == IF n < 10 THEN <<48 + n>> ELSE Itoa(n \div 10) \o <<48 + (n % 10)>>

\* the key under which a frame called name is stored
RECURSIVE rawNameFrom(_, _, _)
rawNameFrom(result, name, i) ==
  IF ~Has(result, name \o <<95>> \o Itoa(i)) THEN name \o <<95>> \o Itoa(i)
  ELSE rawNameFrom(result, name, i + 1)
\* variant that stores every frame under its plain name
rawNameOverwrite(result, name) == name

rawName(result, name) == IF Has(result, name) THEN rawNameFrom(result, name, 0) ELSE name

\* the switch that decodes the payload b of the frame called name; none
\* when the frame is of no decoded kind
decodeFrame(name, b) ==
  IF name[1] = 84 THEN readTFrame(b)
  ELSE IF name = Lit.COMM \/ name = Lit.USLT THEN readTextWithDescrFrame(b)
  ELSE IF name = Lit.APIC THEN readAPICFrame(b)
  ELSE IF name = Lit.PIC THEN readPICFrame(b)
  ELSE [err |-> Nil, v |-> [t |-> "none"]]

\* the loop condition of readID3v2Frames
framesRemain(offset, size) == offset < size

\* one iteration of the loop of readID3v2Frames: the result when the loop
\* ends in it, else the reader, the offset and the frames for the next one
readID3v2FramesStep(d, q, f, us, h, offset, result) ==
  LET done(at, fl) == [done |-> TRUE, r |-> [err |-> Nil, pos |-> at, ff |-> fl, frames |-> result]]
      fail(e, at, fl) == [done |-> TRUE, r |-> [err |-> e, pos |-> at, ff |-> fl, frames |-> EmptyMap]]
      next(at, fl, off, res) == [done |-> FALSE, q |-> at, f |-> fl, offset |-> off, result |-> res]
  IN  IF ~framesRemain(offset, h.Size) THEN done(q, f)
      ELSE With(readID3v2FrameHeader(d, q, f, us, h.Version), LAMBDA fh :
             IF fh.err # Nil THEN fail(fh.err, fh.pos, fh.ff)
             ELSE IF fh.size = 0 THEN done(fh.pos, fh.ff)
             ELSE LET offset1 == offset + fh.headerSize + fh.size
                  IN  With(IF fh.hasFlags /\ fh.DataLengthIndicator
                           THEN readBytesU(d, fh.pos, fh.ff, us, 4)
                           ELSE [err |-> Nil, pos |-> fh.pos, ff |-> fh.ff, b |-> <<>>], LAMBDA dli :
                        LET size == IF fh.hasFlags /\ fh.DataLengthIndicator THEN fh.size - 4 ELSE fh.size
                        IN  IF dli.err # Nil THEN fail(dli.err, dli.pos, dli.ff)
                            ELSE IF fh.hasFlags /\ fh.Unsynchronisation
                            THEN next(dli.pos, dli.ff, offset1, result)
                            ELSE With(readBytesU(d, dli.pos, dli.ff, us, size), LAMBDA b :
                                   With(TrimSpace(fh.name), LAMBDA name :
                                     IF b.err # Nil THEN fail(b.err, b.pos, b.ff)
                                     ELSE IF name = <<>> THEN done(b.pos, b.ff)
                                     ELSE With(decodeFrame(name, b.b), LAMBDA v :
                                            IF v.err # Nil THEN fail(v.err, b.pos, b.ff)
                                            ELSE next(b.pos, b.ff, offset1,
                                                      IF v.v.t = "none" THEN result
                                                      ELSE Put(result, rawName(result, name), v.v)))))))

\* the loop of readID3v2Frames
RECURSIVE readID3v2FramesLoop(_, _, _, _, _, _, _)
readID3v2FramesLoop(d, q, f, us, h, offset, result) ==
  With(readID3v2FramesStep(d, q, f, us, h, offset, result), LAMBDA s :
    IF s.done THEN s.r ELSE readID3v2FramesLoop(d, s.q, s.f, us, h, s.offset, s.result))

readID3v2Frames(d, q, us, h) == readID3v2FramesLoop(d, q, FALSE, us, h, 10, EmptyMap)

\* ------------------------------------------- MP3 frame analyzer (mp3.go)
\* r.Read(buf[:k]) on a bytes.Reader: the bytes of buf that are overwritten
Read(d, q, k) ==
  IF q >= Len(d) THEN [n |-> 0, err |-> EOF, pos |-> q, b |-> <<>>]
  ELSE LET n == Min(k, Len(d) - q)
       IN  [n |-> n, err |-> Nil, pos |-> q + n, b |-> Slice(d, q, q + n)]

\* buf with its first Len(b) bytes replaced by b
Overwrite(buf, b) == [i \in 1..Len(buf) |-> IF i <= Len(b) THEN b[i] ELSE buf[i]]

\* mp3Bitrate[mp3Version[v] + mp3Layer[l]], indexed from 0 by the bitrate index
mp3Bitrate(v, l) ==
  IF v = 3 /\ l = 3 THEN <<0, 32, 64, 96, 128, 160, 192, 224, 256, 288, 320, 352, 384, 416, 448, 0>>
  ELSE IF v = 3 /\ l = 2 THEN <<0, 32, 48, 56, 64, 80, 96, 112, 128, 160, 192, 224, 256, 320, 384, 0>>
  ELSE IF v = 3 /\ l = 1 THEN <<0, 32, 40, 48, 56, 64, 80, 96, 112, 128, 160, 192, 224, 256, 320, 0>>
  ELSE IF l = 3 THEN <<0, 32, 48, 56, 64, 80, 96, 112, 128, 144, 160, 176, 192, 224, 256, 0>>
  ELSE <<0, 8, 16, 24, 32, 40, 48, 56, 64, 80, 96, 112, 128, 144, 160, 0>>

\* mp3Sampling[mp3Version[v]], indexed from 0
mp3Sampling(v) ==
  IF v = 3 THEN <<44100, 48000, 32000, 0>>
  ELSE IF v = 2 THEN <<22050, 24000, 16000, 0>>
  ELSE <<11025, 12000, 8000, 0>>

\* frameLengthMult[mp3Version[v] + mp3Layer[l]]
frameLengthMult(v, l) ==
  IF v = 3 THEN (IF l = 3 THEN 48 ELSE 144)
  ELSE IF v = 2 THEN (IF l = 3 THEN 24 ELSE IF l = 2 THEN 144 ELSE 72)
  ELSE (IF l = 3 THEN 24 ELSE IF l = 2 THEN 72 ELSE 144)

\* the mp3Infos before the first valid header; Version, Layer and Mode are
\* kept as the header's field values (-1: not set)
NoMp3Infos == [Version |-> -1, Layer |-> -1, Mode |-> -1, Sampling |-> 0, Bitrate |-> 0, vbr |-> 0,
               Type |-> "", Size |-> 0]

\* mp3Infos.readHeader: the updated infos and the returned frame length
readHeader(h, buf) ==
  LET v == (buf[2] \div 8) % 4
      l == (buf[2] \div 2) % 4
      b == buf[3] \div 16
      s == (buf[3] \div 4) % 4
      c == buf[4] \div 64
  IN  IF l = 0 \/ b = 15 \/ v = 1 \/ b = 0 \/ s = 3 THEN [h |-> h, ret |-> 11]
      ELSE With(IF h.Version = -1
                THEN [h EXCEPT !.Version = v, !.Layer = l, !.Sampling = mp3Sampling(v)[s + 1],
                               !.Mode = c, !.Type = "CBR"]
                ELSE h, LAMBDA h1 :
             With(mp3Bitrate(v, l)[b + 1], LAMBDA bitrate :
               LET h2 == IF h1.vbr > 2 THEN [h1 EXCEPT !.Type = "VBR"]
                         ELSE IF bitrate # h1.Bitrate THEN [h1 EXCEPT !.vbr = @ + 1]
                         ELSE h1
               IN  [h |-> [h2 EXCEPT !.Bitrate = bitrate],
                    ret |-> (frameLengthMult(v, l) * bitrate * 1000) \div h1.Sampling]))

\* mp3Channel never holds "mono", so only the version decides
xingoffset(version) == IF version = 3 THEN 32 ELSE 17

IsSync(buf) == buf[1] = 255 /\ buf[2] >= 224

\* the padding loop: the position just after the first non-zero byte
RECURSIVE skipPadding(_, _)
skipPadding(d, q) ==
  IF q >= Len(d) THEN [err |-> EOF, pos |-> q]
  ELSE IF d[q + 1] = 0 THEN skipPadding(d, q + 1)
  ELSE [err |-> Nil, pos |-> q + 1]

\* variant that seeks back over all four bytes read when they start
\* neither a frame nor an ID3v1 tag
scanFramesStepRewind(d, q, h, buf, frameCount, nbscan, pos) ==
  LET done(e, at) == [done |-> TRUE,
                      r |-> [h |-> h, err |-> e, pos |-> at, size |-> pos, frameCount |-> frameCount]]
      next(at, h1, buf1, fc, nb, p) ==
        [done |-> FALSE, q |-> at, h |-> h1, buf |-> buf1, frameCount |-> fc, nbscan |-> nb, pos |-> p]
  IN  IF frameCount >= nbscan THEN done(Nil, q)
      ELSE With(Read(d, q, 4), LAMBDA r :
             With(Overwrite(buf, r.b), LAMBDA buf1 :
               IF r.n < 4 THEN done(r.err, r.pos)
               ELSE IF IsSync(buf1)
               THEN With(readHeader(h, buf1), LAMBDA rh :
                      With(Seek(d, r.pos, rh.ret - 4), LAMBDA s :
                        next(s.pos, rh.h, buf1, frameCount + 1,
                             IF rh.h.vbr > 2 THEN 100 ELSE nbscan, s.pos)))
               ELSE IF Slice(buf1, 0, 3) = Lit.TAG
               THEN With(Seek(d, r.pos, 124), LAMBDA s :
                      next(s.pos, h, buf1, frameCount, nbscan, s.pos))
               ELSE next(Seek(d, r.pos, -4).pos, h, buf1, frameCount, nbscan, pos + 4)))

\* one iteration of the frame scan of the fast mode: the result when the
\* scan ends in it, else the state the next iteration starts from
scanFramesStep(d, q, h, buf, frameCount, nbscan, pos) ==
  LET done(e, at) == [done |-> TRUE,
                      r |-> [h |-> h, err |-> e, pos |-> at, size |-> pos, frameCount |-> frameCount]]
      next(at, h1, buf1, fc, nb, p) ==
        [done |-> FALSE, q |-> at, h |-> h1, buf |-> buf1, frameCount |-> fc, nbscan |-> nb, pos |-> p]
  IN  IF frameCount >= nbscan THEN done(Nil, q)
      ELSE With(Read(d, q, 4), LAMBDA r :
             With(Overwrite(buf, r.b), LAMBDA buf1 :
               IF r.n < 4 THEN done(r.err, r.pos)
               ELSE IF IsSync(buf1)
               THEN With(readHeader(h, buf1), LAMBDA rh :
                      With(Seek(d, r.pos, rh.ret - 4), LAMBDA s :
                        next(s.pos, rh.h, buf1, frameCount + 1,
                             IF rh.h.vbr > 2 THEN 100 ELSE nbscan, s.pos)))
               ELSE IF Slice(buf1, 0, 3) = Lit.TAG
               THEN With(Seek(d, r.pos, 124), LAMBDA s :
                      next(s.pos, h, buf1, frameCount, nbscan, s.pos))
               ELSE next(Seek(d, r.pos, -3).pos, h, buf1, frameCount, nbscan, pos + 4)))

\* the frame scan of the fast mode; nbscan is 50, or 100 once h.vbr > 2
RECURSIVE scanFrames(_, _, _, _, _, _, _)
scanFrames(d, q, h, buf, frameCount, nbscan, pos) ==
  With(scanFramesStep(d, q, h, buf, frameCount, nbscan, pos), LAMBDA s :
    IF s.done THEN s.r ELSE scanFrames(d, s.q, s.h, s.buf, s.frameCount, s.nbscan, s.pos))

\* getMp3Infos(r, false).  The averaged bitrate and the duration are
\* floating-point statistics and are not part of the result here.
getMp3Infos(d, q) ==
  LET fail(e, at) == [err |-> e, pos |-> at, h |-> NoMp3Infos]
  IN  With(skipPadding(d, q), LAMBDA pad :
        IF pad.err # Nil THEN fail(pad.err, pad.pos)
        ELSE LET start == pad.pos - 1
             IN  With(Read(d, start, 4), LAMBDA first :
                   IF first.n < 4 THEN fail("not a MP3 file", first.pos)
                   ELSE LET buf == first.b \o <<0, 0, 0, 0>>
                        IN  With(readHeader(NoMp3Infos, buf), LAMBDA rh :
                              IF ~IsSync(buf) THEN fail("not a MP3 file", first.pos)
                              ELSE With(Read(d, first.pos + xingoffset(rh.h.Version), 8), LAMBDA x :
                                     With(Overwrite(buf, x.b), LAMBDA buf8 :
                                       IF x.err # Nil THEN fail(x.err, x.pos)
                                       ELSE IF Slice(buf8, 0, 4) \in {Lit.Xing, Lit.Info} /\ buf8[8] % 4 = 3
                                       THEN With(readBytes(d, x.pos, 4), LAMBDA frames :
                                              With(readBytes(d, frames.pos, 4), LAMBDA size :
                                                [err |-> Nil, pos |-> size.pos,
                                                 h |-> [rh.h EXCEPT !.Size = IF size.err = Nil THEN getInt(size.b) ELSE 0]]))
                                       ELSE With(scanFrames(d, start + rh.ret, rh.h, buf8, 0, 50, 0), LAMBDA sc :
                                              IF sc.err = EOF
                                              THEN [err |-> Nil, pos |-> sc.pos, h |-> [sc.h EXCEPT !.Size = sc.size]]
                                              ELSE [err |-> Nil, pos |-> Len(d), h |-> [sc.h EXCEPT !.Size = Len(d)]]))))))

\* the five stream_ entries ReadID3v2Tags adds to the frames
withStreamInfo(f, mp3) ==
  Put(Put(Put(Put(Put(f, Lit.stream_type, [t |-> "string", mpeg |-> mp3.Version, layer |-> mp3.Layer]),
                  Lit.stream_bitrate, [t |-> "string", kbps |-> "averaged"]),
              Lit.stream_audio, [t |-> "string", hz |-> mp3.Sampling, mode |-> mp3.Mode]),
          Lit.stream_size, IntVal(mp3.Size)),
      Lit.stream_length, [t |-> "int", seconds |-> "estimated"])

\* ReadID3v2Tags seeks to the start of the stream itself
ReadID3v2Tags(d, q) ==
  With(readID3v2Header(d, 0), LAMBDA hd :
    IF hd.err # Nil THEN [meta |-> NoMeta, err |-> hd.err, pos |-> hd.pos]
    ELSE With(readID3v2Frames(d, hd.pos, hd.h.Unsynchronisation, hd.h), LAMBDA f :
           IF f.err # Nil THEN [meta |-> NoMeta, err |-> f.err, pos |-> f.pos]
           ELSE With(getMp3Infos(d, f.pos), LAMBDA mp3 :
                  IF mp3.err # Nil THEN [meta |-> NoMeta, err |-> mp3.err, pos |-> mp3.pos]
                  ELSE [meta |-> [kind |-> "ID3v2", header |-> hd.h, frames |-> withStreamInfo(f.frames, mp3.h)],
                        err |-> Nil, pos |-> mp3.pos])))

\* --------------------------------------------------------------- ID3v1
\* strips the NUL and space padding of a fixed-width field
RECURSIVE trimString(_)
trimString(s) ==
  IF Len(s) > 0 /\ s[Len(s)] \in {0, 32} THEN trimString(SubSeq(s, 1, Len(s) - 1))
  ELSE IF Len(s) > 0 /\ s[1] \in {0, 32} THEN trimString(Tail(s))
  ELSE s

\* ReadID3v1Tags: the fixed 128-byte trailer at the end of the stream
ReadID3v1Tags(d, q) ==
  With(Seek(d, Len(d), -128), LAMBDA s :
    IF s.err # Nil THEN [meta |-> NoMeta, err |-> s.err, pos |-> q]
    ELSE With(Slice(d, s.pos, Len(d)), LAMBDA t :
           IF Slice(t, 0, 3) # Lit.TAG THEN [meta |-> NoMeta, err |-> ErrNotID3v1, pos |-> s.pos + 3]
           ELSE [meta |-> [kind |-> "ID3v1",
                           title |-> trimString(Slice(t, 3, 33)),
                           artist |-> trimString(Slice(t, 33, 63)),
                           album |-> trimString(Slice(t, 63, 93)),
                           year |-> trimString(Slice(t, 93, 97)),
                           comment |-> trimString(IF t[126] = 0 /\ t[127] # 0 THEN Slice(t, 97, 125)
                                                  ELSE Slice(t, 97, 127)),
                           track |-> IF t[126] = 0 /\ t[127] # 0 THEN t[127] ELSE 0,
                           genre |-> t[128]],
                 err |-> Nil, pos |-> Len(d)]))

\* ---------------------------------------------------- ReadFrom (tag.go)
\* the rules with "ID3" tried before "ftypM4A"
selectDecoderID3First(b) ==
  IF Slice(b, 0, 4) = Lit.fLaC THEN "FLAC"
  ELSE IF Slice(b, 0, 4) = Lit.OggS THEN "OGG"
  ELSE IF Slice(b, 0, 3) = Lit.ID3 THEN "ID3v2"
  ELSE IF Slice(b, 4, 11) = Lit.ftypM4A THEN "MP4"
  ELSE "ID3v1"

\* the decoder the first matching rule selects for the 11 peeked bytes
selectDecoder(b) ==
  IF Slice(b, 0, 4) = Lit.fLaC THEN "FLAC"
  ELSE IF Slice(b, 0, 4) = Lit.OggS THEN "OGG"
  ELSE IF Slice(b, 4, 11) = Lit.ftypM4A THEN "MP4"
  ELSE IF Slice(b, 0, 3) = Lit.ID3 THEN "ID3v2"
  ELSE "ID3v1"

\* the decoder called name, given the stream at position q
runDecoder(name, d, q) ==
  IF name = "FLAC" THEN ReadFLACTags(d, q)
  ELSE IF name = "OGG" THEN ReadOGGTags(d, q)
  ELSE IF name = "MP4" THEN ReadAtoms(d, q)
  ELSE IF name = "ID3v2" THEN ReadID3v2Tags(d, q)
  ELSE ReadID3v1Tags(d, q)

\* the position at which ReadFrom leaves the stream for the decoder
afterPeek(q) == q + 11

\* the error ReadFrom returns for the error err of the ID3v1 decoder
mapID3v1Error(err) == IF err = ErrNotID3v1 THEN ErrNoTagsFound ELSE err

\* ReadFrom: the result, and the decoders it has invoked in order
ReadFrom(d, q) ==
  With(readBytes(d, q, 11), LAMBDA b :
    IF b.err # Nil THEN [meta |-> NoMeta, err |-> b.err, pos |-> b.pos, called |-> <<>>, decErr |-> Nil]
    ELSE With(selectDecoder(b.b), LAMBDA dec :
           With(runDecoder(dec, d, afterPeek(q)), LAMBDA r :
             IF dec = "ID3v1"
             THEN [meta |-> IF r.err # Nil THEN NoMeta ELSE r.meta, err |-> mapID3v1Error(r.err),
                   pos |-> r.pos, called |-> <<dec>>, decErr |-> r.err]
             ELSE [meta |-> r.meta, err |-> r.err, pos |-> r.pos, called |-> <<dec>>, decErr |-> r.err])))

\* ------------------------------------------------------------ accessors

Accessors == {"Title", "Album", "Artist", "AlbumArtist", "Composer", "Genre", "Year", "Track", "Disc",
              "Picture", "Lyrics", "Comment"}

\* what an accessor call yields: a value, or a panic
Val(v) == [err |-> Nil, v |-> v]
Panics == [err |-> Panic, v |-> <<>>]

IsDigit(x) == x >= 48 /\ x <= 57

\* strconv.Atoi, 0 when s is not a number
Atoi(s) ==
  LET signed == Len(s) > 0 /\ s[1] \in {43, 45}
      digits == IF signed THEN Tail(s) ELSE s
      RECURSIVE go(_, _)
      go(i, n) == IF i > Len(digits) THEN n ELSE go(i + 1, n * 10 + (digits[i] - 48))
  IN  IF Len(digits) = 0 \/ \E i \in 1..Len(digits) : ~IsDigit(digits[i]) THEN 0
      ELSE IF signed /\ s[1] = 45 THEN 0 - go(1, 0)
      ELSE go(1, 0)

\* variant that reads the total from the untrimmed part after the '/'
parseXofNUntrimmed(s) ==
  LET slashes == {i \in 1..Len(s) : s[i] = 47}
  IN  IF Cardinality(slashes) # 1 THEN <<Atoi(s), 0>>
      ELSE LET i == CHOOSE j \in slashes : TRUE
           IN  <<Atoi(TrimSpace(SubSeq(s, 1, i - 1))), Atoi(SubSeq(s, i + 1, Len(s)))>>

\* tag.go parseXofN: strings.Split(s, "/") has two parts iff s holds one '/'
parseXofN(s) ==
  LET slashes == {i \in 1..Len(s) : s[i] = 47}
  IN  IF Cardinality(slashes) # 1 THEN <<Atoi(s), 0>>
      ELSE LET i == CHOOSE j \in slashes : TRUE
           IN  <<Atoi(TrimSpace(SubSeq(s, 1, i - 1))), Atoi(TrimSpace(SubSeq(s, i + 1, Len(s))))>>

\* m.c[key] of the Vorbis comment map: "" when absent
Comment0(m, key) == IF Has(m.c, key) THEN m.c[key] ELSE <<>>

\* the accessors of metadataFLAC (flac.go), used for Vorbis comments in OGG too
accessFLAC(m, a) ==
  IF a = "Title" THEN Val(Comment0(m, Lit.title))
  ELSE IF a = "Artist"
       THEN Val(IF Comment0(m, Lit.performer) # <<>> THEN Comment0(m, Lit.performer) ELSE Comment0(m, Lit.artist))
  ELSE IF a = "Album" THEN Val(Comment0(m, Lit.album))
  ELSE IF a = "AlbumArtist" THEN Val(<<>>)
  ELSE IF a = "Composer"
       THEN Val(IF Comment0(m, Lit.composer) # <<>> THEN Comment0(m, Lit.composer)
                ELSE IF Comment0(m, Lit.performer) = <<>> THEN <<>> ELSE Comment0(m, Lit.artist))
  ELSE IF a = "Genre" THEN Val(Comment0(m, Lit.genre))
  ELSE IF a = "Year" THEN Val(0)
  ELSE IF a = "Track" THEN Val(<<Atoi(Comment0(m, Lit.tracknumber)), Atoi(Comment0(m, Lit.tracktotal))>>)
  ELSE IF a = "Disc" THEN Val(<<Atoi(Comment0(m, Lit.discnumber)), Atoi(Comment0(m, Lit.disctotal))>>)
  ELSE IF a = "Picture" THEN Val(m.p)
  ELSE Val(<<>>)

\* frames.Name(s, fm)
frameName(a, version) ==
  LET l == CASE a = "Title" -> <<Lit.TT2, Lit.TIT2>>
             [] a = "Artist" -> <<Lit.TP1, Lit.TPE1>>
             [] a = "Album" -> <<Lit.TAL, Lit.TALB>>
             [] a = "AlbumArtist" -> <<Lit.TP2, Lit.TPE2>>
             [] a = "Composer" -> <<Lit.TCM, Lit.TCOM>>
             [] a = "Date" -> <<Lit.TDA, Lit.TDAT>>
             [] a = "Year" -> <<Lit.TYE, Lit.TYER>>
             [] a = "Track" -> <<Lit.TRK, Lit.TRCK>>
             [] a = "Disc" -> <<Lit.TPA, Lit.TPOS>>
             [] a = "Genre" -> <<Lit.TCO, Lit.TCON>>
             [] a = "Picture" -> <<Lit.PIC, Lit.APIC>>
             [] a = "Lyrics" -> <<<<>>, Lit.USLT>>
             [] a = "Comment" -> <<Lit.COM, Lit.COMM>>
  IN  IF version = "ID3v2.2" THEN l[1]
      ELSE IF version = "ID3v2.3" THEN l[2]
      ELSE IF a \in {"Year", "Date"} THEN Lit.TDRC
      ELSE l[2]

\* metadataID3v2.getString: v.(string)
getStringID3v2(m, k) ==
  IF ~Has(m.frames, k) THEN Val(<<>>)
  ELSE IF m.frames[k].t # "string" THEN Panics
  ELSE Val(m.frames[k].v)

\* the expansion of numeric "(NN)" genre references; text without '(' is
\* returned as it is, an expanded text is marked by a leading -1
id3v2genre(s) == IF \E i \in 1..Len(s) : s[i] = 40 THEN <<-1>> \o s ELSE s

\* the accessors of metadataID3v2 (tag.go)
accessID3v2(m, a) ==
  With(frameName(a, m.header.Version), LAMBDA k :
    With(getStringID3v2(m, k), LAMBDA s :
      IF a \in {"Title", "Artist", "Album", "AlbumArtist", "Composer"} THEN s
      ELSE IF a = "Genre" THEN (IF s.err # Nil THEN s ELSE Val(id3v2genre(s.v)))
      ELSE IF a = "Year" THEN (IF s.err # Nil THEN s ELSE Val(Atoi(s.v)))
      ELSE IF a \in {"Track", "Disc"} THEN (IF s.err # Nil THEN s ELSE Val(parseXofN(s.v)))
      ELSE IF a = "Lyrics"
           THEN IF ~Has(m.frames, k) THEN Val(<<>>)
                ELSE IF m.frames[k].t # "Comm" THEN Panics
                ELSE Val(m.frames[k].Text)
      ELSE IF a = "Comment"
           THEN IF ~Has(m.frames, k) THEN Val(<<>>)
                ELSE IF m.frames[k].t # "Comm" THEN Panics
                ELSE IF m.frames[k].Description = <<>> THEN Val(trimString(m.frames[k].Text))
                ELSE Val(trimString(m.frames[k].Description))
      ELSE \* Picture
           IF ~Has(m.frames, k) THEN Val(NoPicture)
           ELSE IF m.frames[k].t # "Picture" THEN Panics
           ELSE Val(m.frames[k])))

\* atoms.Name(n): one empty string, then the keys of atoms whose value is n;
\* the two keys of "artist" come in the order the map iteration yields
atomNamesOf(n, artFirst) ==
  CASE n = "title" -> <<<<>>, AtomKey.nam>>
    [] n = "artist" -> IF artFirst THEN <<<<>>, AtomKey.art, AtomKey.ART>> ELSE <<<<>>, AtomKey.ART, AtomKey.art>>
    [] n = "album" -> <<<<>>, AtomKey.alb>>
    [] n = "album_artist" -> <<<<>>, AtomKey.aART>>
    [] n = "composer" -> <<<<>>, AtomKey.wrt>>
    [] n = "genre" -> <<<<>>, AtomKey.gen>>
    [] n = "genre ID" -> <<<<>>, AtomKey.geID>>
    [] n = "genre ID3v1 ID" -> <<<<>>, AtomKey.gnre>>
    [] n = "year" -> <<<<>>, AtomKey.day>>

\* the value of the first key of n that is in the map, or none
firstPresent(m, n) ==
  With({i \in 1..Len(n) : Has(m.data, n[i])}, LAMBDA present :
    IF present = {} THEN [t |-> "absent"]
    ELSE m.data[n[CHOOSE i \in present : \A j \in present : i <= j]])

\* metadataMP4.getString: x.(string)
getStringMP4(m, n) ==
  With(firstPresent(m, n), LAMBDA x :
    IF x.t = "absent" THEN Val(<<>>) ELSE IF x.t # "string" THEN Panics ELSE Val(x.v))

\* metadataMP4.getInt: x.(int)
getIntMP4(m, n) ==
  With(firstPresent(m, n), LAMBDA x :
    IF x.t = "absent" THEN Val(0) ELSE IF x.t # "int" THEN Panics ELSE Val(x.v))

\* number of entries of the table id3v1Genres
NumID3v1Genres == 256

\* metadataMP4.Genre; a genre taken from a table is given by table and index
genreMP4(m) ==
  With(getStringMP4(m, atomNamesOf("genre", TRUE)), LAMBDA genre :
    IF genre.err # Nil THEN genre
    ELSE IF Len(genre.v) >= 1 THEN genre
    ELSE With(getIntMP4(m, atomNamesOf("genre ID", TRUE)), LAMBDA genreID :
           IF genreID.err # Nil THEN genreID
           ELSE IF genreID.v = 0
           THEN With(getIntMP4(m, atomNamesOf("genre ID3v1 ID", TRUE)), LAMBDA g :
                  IF g.err # Nil THEN g
                  \* id3v1Genres[genreID]
                  ELSE IF g.v - 1 < 0 \/ g.v - 1 >= NumID3v1Genres THEN Panics
                  ELSE Val(<<-2, g.v - 1>>))
           ELSE Val(<<-3, genreID.v>>)))

\* m.data[key].(int) of Track and Disc
countMP4(m, name) ==
  With(getIntMP4(m, <<name>>), LAMBDA x :
    LET key == name \o Lit.count
    IN  IF x.err # Nil THEN x
        ELSE IF ~Has(m.data, key) THEN Val(<<x.v, 0>>)
        ELSE IF m.data[key].t # "int" THEN Panics
        ELSE Val(<<x.v, m.data[key].v>>))

\* m.data[key].(string) of Lyrics and Comment
textMP4(m, key) ==
  IF ~Has(m.data, key) THEN Val(<<>>)
  ELSE IF m.data[key].t # "string" THEN Panics
  ELSE Val(m.data[key].v)

\* the accessors of metadataMP4 (mp4.go)
accessMP4(m, a, artFirst) ==
  IF a = "Title" THEN getStringMP4(m, atomNamesOf("title", artFirst))
  ELSE IF a = "Artist" THEN getStringMP4(m, atomNamesOf("artist", artFirst))
  ELSE IF a = "Album" THEN getStringMP4(m, atomNamesOf("album", artFirst))
  ELSE IF a = "AlbumArtist" THEN getStringMP4(m, atomNamesOf("album_artist", artFirst))
  ELSE IF a = "Composer" THEN getStringMP4(m, atomNamesOf("composer", artFirst))
  ELSE IF a = "Genre" THEN genreMP4(m)
  ELSE IF a = "Year"
       THEN With(getStringMP4(m, atomNamesOf("year", artFirst)), LAMBDA date :
              IF date.err # Nil THEN date
              ELSE IF Len(date.v) >= 4 THEN Val(Atoi(SubSeq(date.v, 1, 4))) ELSE Val(0))
  ELSE IF a = "Track" THEN countMP4(m, AtomKey.trkn)
  ELSE IF a = "Disc" THEN countMP4(m, AtomKey.disk)
  ELSE IF a = "Lyrics" THEN textMP4(m, AtomKey.lyr)
  ELSE IF a = "Comment" THEN textMP4(m, AtomKey.cmt)
  ELSE \* Picture: p, _ := v.(*Picture)
       IF Has(m.data, AtomKey.covr) /\ m.data[AtomKey.covr].t = "Picture" THEN Val(m.data[AtomKey.covr]) ELSE Val(NoPicture)

\* the accessors of the ID3v1 metadata
accessID3v1(m, a) ==
  IF a = "Title" THEN Val(m.title)
  ELSE IF a = "Artist" THEN Val(m.artist)
  ELSE IF a = "Album" THEN Val(m.album)
  ELSE IF a = "Year" THEN Val(Atoi(m.year))
  ELSE IF a = "Comment" THEN Val(m.comment)
  ELSE IF a = "Track" THEN Val(<<m.track, 0>>)
  ELSE IF a = "Disc" THEN Val(<<0, 0>>)
  ELSE IF a = "Genre" THEN Val(<<-2, m.genre>>)
  ELSE IF a = "Picture" THEN Val(NoPicture)
  ELSE Val(<<>>)

\* accessor a called on the Metadata m
access(m, a, artFirst) ==
  IF m.kind \in {"FLAC", "VORBIS"} THEN accessFLAC(m, a)
  ELSE IF m.kind = "ID3v2" THEN accessID3v2(m, a)
  ELSE IF m.kind = "MP4" THEN accessMP4(m, a, artFirst)
  ELSE accessID3v1(m, a)

\* the value an accessor yields for an absent tag: "", 0, (0, 0) or nil
Default(a) ==
  IF a = "Year" THEN 0
  ELSE IF a \in {"Track", "Disc"} THEN <<0, 0>>
  ELSE IF a = "Picture" THEN NoPicture
  ELSE <<>>

\* ----------------------------------------------- checksums (sum.go, Hash)
\* SHA-1 is taken to be free of collisions: a digest is given by the bytes
\* that were hashed
sha1(b) == [sha1 |-> b]

Digest(h, at) == [err |-> Nil, sum |-> h, pos |-> at]
NoDigest(e, at) == [err |-> e, sum |-> sha1(<<>>), pos |-> at]

\* SumAll: the content from the current position to the end
SumAll(d, q) == Digest(sha1(Slice(d, Min(q, Len(d)), Len(d))), Max(q, Len(d)))

\* SumAtoms: the loop over the atoms
RECURSIVE SumAtoms(_, _)
SumAtoms(d, q) ==
  With(readAtomHeader(d, q), LAMBDA h :
    IF h.err # Nil
    THEN NoDigest(IF h.err = EOF /\ h.pos = q THEN "reached EOF before audio data" ELSE h.err, h.pos)
    ELSE IF h.name = Lit.meta THEN SumAtoms(d, Seek(d, h.pos, 4).pos)
    ELSE IF h.name \in {Lit.moov, Lit.udta, Lit.ilst} THEN SumAtoms(d, h.pos)
    ELSE IF h.name = Lit.mdat
    THEN With(CopyN(d, h.pos, Sub8(h.size)), LAMBDA c :
           IF c.err # Nil THEN NoDigest("error reading audio data", c.pos)
           ELSE Digest(sha1(c.b), c.pos))
    ELSE SumAtoms(d, Seek(d, h.pos, Sub8(h.size)).pos))

\* sizeToEndOffset: n is the offset Seek(-128, SEEK_END) returns, and the
\* second Seek moves back by n from there
sizeToEndOffset(d, q) ==
  With(Seek(d, Len(d), -128), LAMBDA end :
    IF end.err # Nil THEN [err |-> "error seeking end offset", n |-> 0, pos |-> q]
    ELSE With(Seek(d, end.pos, 0 - end.pos), LAMBDA back :
           [err |-> back.err, n |-> end.pos, pos |-> back.pos]))

\* the check of n in SumID3v1
tooShortForID3v1(n) == n <= 0

SumID3v1(d, q) ==
  With(sizeToEndOffset(d, q), LAMBDA e :
    IF e.err # Nil THEN NoDigest("error determining read size to ID3v1 header", e.pos)
    ELSE IF tooShortForID3v1(e.n) THEN NoDigest("file size must be greater than 128 bytes", e.pos)
    ELSE With(CopyN(d, e.pos, e.n), LAMBDA c :
           IF c.err # Nil THEN NoDigest("error reading bytes", c.pos) ELSE Digest(sha1(c.b), c.pos)))

SumID3v2(d, q) ==
  With(readID3v2Header(d, q), LAMBDA hd :
    IF hd.err # Nil THEN NoDigest("error reading ID3v2 header", hd.pos)
    ELSE With(Seek(d, hd.pos, hd.h.Size), LAMBDA s :
           With(sizeToEndOffset(d, s.pos), LAMBDA e :
             IF e.err # Nil THEN NoDigest("error determining read size to ID3v1 header", e.pos)
             ELSE IF e.n < 0 THEN NoDigest("file size must be greater than 128 bytes for MP3", e.pos)
             ELSE With(CopyN(d, e.pos, e.n), LAMBDA c :
                    IF c.err # Nil THEN NoDigest("error reading bytes", c.pos)
                    ELSE Digest(sha1(c.b), c.pos)))))

\* the function Sum hands a stream with the first 11 bytes b to
sumKind(b) ==
  IF Slice(b, 4, 11) = Lit.ftypM4A THEN "MP4"
  ELSE IF Slice(b, 0, 3) = Lit.ID3 THEN "ID3v2"
  ELSE "ID3v1"

Sum(d, q) ==
  With(readBytes(d, q, 11), LAMBDA b :
    IF b.err # Nil THEN NoDigest(b.err, b.pos)
    ELSE With(Seek(d, b.pos, -11), LAMBDA back :
           IF sumKind(b.b) = "MP4" THEN SumAtoms(d, back.pos)
           ELSE IF sumKind(b.b) = "ID3v2" THEN SumID3v2(d, back.pos)
           ELSE With(SumID3v1(d, back.pos), LAMBDA h :
                  IF h.err = ErrNotID3v1 THEN SumAll(d, h.pos) ELSE h)))

\* ioutil.ReadAll from offset q
ReadAll(d, q) == Slice(d, Min(q, Len(d)), Len(d))

\* HashAll: the whole content
HashAll(d, q) == Digest(sha1(ReadAll(d, 0)), Len(d))

\* HashAtoms seeks to offset 0 and loops over the atoms. At a container atom
\* it calls itself: the call seeks to offset 0 again and arrives at the same
\* atom, so the recursion ends only with the stack overflow of the run time
RECURSIVE HashAtomsLoop(_, _)
HashAtomsLoop(d, q) ==
  With(readAtomHeader(d, q), LAMBDA h :
    IF h.err # Nil
    THEN NoDigest(IF h.err = EOF /\ h.pos = q THEN "reached EOF before audio data" ELSE h.err, h.pos)
    ELSE IF h.name = Lit.meta
    THEN With(readBytes(d, h.pos, 4), LAMBDA s :
           IF s.err # Nil THEN NoDigest(s.err, s.pos) ELSE NoDigest(Panic, s.pos))
    ELSE IF h.name \in {Lit.moov, Lit.udta, Lit.ilst} THEN NoDigest(Panic, h.pos)
    ELSE IF h.name = Lit.mdat
    THEN With(readBytes(d, h.pos, Sub8(h.size)), LAMBDA b :
           IF b.err # Nil THEN NoDigest("error reading audio data", b.pos)
           ELSE Digest(sha1(b.b), b.pos))
    ELSE HashAtomsLoop(d, Seek(d, h.pos, Sub8(h.size)).pos))

HashAtoms(d, q) == HashAtomsLoop(d, 0)

HashID3v1(d, q) ==
  With(ReadAll(d, 0), LAMBDA b :
    IF Len(b) < 128 THEN NoDigest("file size must be greater than 128 bytes for ID3v1 metadata", Len(d))
    ELSE Digest(sha1(Slice(b, 0, Len(b) - 128)), Len(d)))

HashID3v2(d, q) ==
  With(readID3v2Header(d, 0), LAMBDA hd :
    IF hd.err # Nil THEN NoDigest("error reading ID3v2 header", hd.pos)
    ELSE With(Seek(d, 0, hd.h.Size), LAMBDA s :
           With(ReadAll(d, s.pos), LAMBDA b :
             IF Len(b) < 128 THEN NoDigest("file size must be greater than 128 bytes for MP3", Max(s.pos, Len(d)))
             ELSE Digest(sha1(Slice(b, 0, Len(b) - 128)), Len(d)))))

Hash(d, q) ==
  With(readBytes(d, q, 11), LAMBDA b :
    IF b.err # Nil THEN NoDigest(b.err, b.pos)
    ELSE IF Slice(b.b, 4, 11) = Lit.ftypM4A THEN HashAtoms(d, b.pos)
    ELSE IF Slice(b.b, 0, 3) = Lit.ID3 THEN HashID3v2(d, b.pos)
    ELSE With(HashID3v1(d, b.pos), LAMBDA h :
           IF h.err = ErrNotID3v1 THEN HashAll(d, h.pos) ELSE h))

\* ------------------------------------------------------- input streams
BE(n, k) == [i \in 1..k |-> (n \div (256 ^ (k - i))) % 256]
LE(n, k) == [i \in 1..k |-> (n \div (256 ^ (i - 1))) % 256]
\* 4 bytes holding 7 bits each
Synchsafe(n) == [i \in 1..4 |-> (n \div (128 ^ (4 - i))) % 128]

Zeros(n) == [i \in 1..n |-> 0]

RECURSIVE Concat(_)
Concat(list) == IF Len(list) = 0 THEN <<>> ELSE Head(list) \o Concat(Tail(list))

\* all prefixes of s, s included
Prefixes(s) == {SubSeq(s, 1, n) : n \in 0..Len(s)}

\* a Vorbis comment list
VorbisComments(vendor, comments) ==
  LE(Len(vendor), 4) \o vendor \o LE(Len(comments), 4)
    \o Concat([i \in 1..Len(comments) |-> LE(Len(comments[i]), 4) \o comments[i]])

FlacBlock(type, last, payload) ==
  <<type + (IF last THEN 128 ELSE 0)>> \o BE(Len(payload), 3) \o payload

FlacPicture(type, mime, desc, data) ==
  BE(type, 4) \o BE(Len(mime), 4) \o mime \o BE(Len(desc), 4) \o desc \o Zeros(16)
    \o BE(Len(data), 4) \o data

\* one OGG page: capture pattern, header with the header-type flag in its
\* second byte, segment table and payload
OggPage(flag, payload) ==
  Lit.OggS \o <<0, flag>> \o Zeros(20) \o <<1, Len(payload)>> \o payload

\* an OGG stream: identification page, comment packet over the given
\* payload chunks, then the first audio page
OggFile(chunks) ==
  OggPage(2, <<idType>> \o Zeros(29))
    \o Concat([i \in 1..Len(chunks) |-> OggPage(IF i = 1 THEN 0 ELSE 1, chunks[i])])
    \o OggPage(0, <<7, 7>>)

OggCommentPacket(vendor, comments) == <<commentType>> \o Lit.vorbis \o VorbisComments(vendor, comments)

\* an MP4 atom with the given payload
Atom(name, payload) == BE(8 + Len(payload), 4) \o name \o payload
\* a tag atom: the data sub-atom with class code, locale and value
DataAtom(name, class, value) == Atom(name, Atom(Lit.data, BE(class, 4) \o Zeros(4) \o value))
Mp4File(tags, audio) ==
  Atom(Lit.ftyp, Lit.M4A_ \o Zeros(4))
    \o Atom(Lit.moov, Atom(Lit.udta, Atom(Lit.meta, Zeros(4) \o Atom(Lit.ilst, tags))))
    \o Atom(Lit.mdat, audio)

\* an ID3v2 tag: header with version, flags and synchsafe size, then the body
ID3v2Tag(version, flags, size, body) == Lit.ID3 \o <<version, 0, flags>> \o Synchsafe(size) \o body
\* a frame of ID3v2.3 (plain size), ID3v2.4 (synchsafe size), ID3v2.2 (3+3 bytes)
Frame(version, name, size, flags, payload) ==
  IF version = 2 THEN name \o BE(size, 3) \o payload
  ELSE IF version = 3 THEN name \o BE(size, 4) \o <<0, flags>> \o payload
  ELSE name \o Synchsafe(size) \o <<0, flags>> \o payload

\* two MPEG-2 layer III frames of 24 bytes (8 kbps, 24 kHz)
Mp3Frame == <<255, 243, 20, 0>> \o Zeros(20)
Mp3Audio == Mp3Frame \o Mp3Frame

\* an ID3v1 trailer: "TAG" and 125 bytes of fields
ID3v1Trailer(title, track, genre) ==
  Lit.TAG \o title \o Zeros(30 - Len(title)) \o Zeros(60) \o Zeros(4) \o Zeros(28) \o <<0, track>> \o <<genre>>

\* FLAC streams: a complete one with picture and comments, each of its
\* truncations, and one whose comment has no '='
FlacGood ==
  Lit.fLaC \o FlacBlock(0, FALSE, Zeros(4))
    \o FlacBlock(PictureBlock, FALSE, FlacPicture(3, Lit.image_jpeg, <<>>, <<1, 2>>))
    \o FlacBlock(VorbisCommentBlock, TRUE, VorbisComments(<<120>>, <<Lit.TITLE_T, Lit.track_1>>))
FlacBad ==
  Lit.fLaC \o FlacBlock(0, FALSE, Zeros(4))
    \o FlacBlock(VorbisCommentBlock, TRUE, VorbisComments(<<120>>, <<Lit.T>>))
FlacStreams == Prefixes(FlacGood) \cup {FlacBad}

\* OGG streams: complete, with the comment packet on one page or split over
\* two, truncations, and one whose comment has no '='
OggGood == OggFile(<<OggCommentPacket(<<120>>, <<Lit.TITLE_T>>)>>)
OggSplit ==
  With(OggCommentPacket(<<120>>, <<Lit.TITLE_T>>), LAMBDA p :
    OggFile(<<SubSeq(p, 1, 9), SubSeq(p, 10, Len(p))>>))
OggBad == OggFile(<<OggCommentPacket(<<120>>, <<Lit.T>>)>>)
OggStreams == Prefixes(OggGood) \cup {OggSplit, OggBad}

\* MP4 streams: title, track, genre and cover; a title alone; a title
\* stored with the integer class; truncations
Mp4Good ==
  Mp4File(DataAtom(AtomKey.nam, 1, Lit.T) \o DataAtom(AtomKey.trkn, 0, <<0, 0, 0, 1, 0, 2>>)
            \o DataAtom(AtomKey.gnre, 0, <<0, 18>>) \o DataAtom(AtomKey.covr, 13, <<1, 2>>), <<1, 2, 3>>)
Mp4TitleOnly == Mp4File(DataAtom(AtomKey.nam, 1, Lit.T), <<1>>)
Mp4IntTitle == Mp4File(DataAtom(AtomKey.nam, 21, <<7>>) \o DataAtom(AtomKey.gnre, 0, <<0, 18>>), <<1>>)
Mp4Bad == Mp4File(DataAtom(AtomKey.nam, 0, Lit.T), <<1>>)
Mp4Streams == Prefixes(Mp4Good) \cup {Mp4TitleOnly, Mp4IntTitle, Mp4Bad}

\* ID3v2 streams of the three versions, followed by audio
ID3v2Good(version) ==
  LET n == IF version = 2 THEN Lit.TT2 ELSE Lit.TIT2
  IN  With(Frame(version, n, 2, 0, <<0, 84>>), LAMBDA body :
        ID3v2Tag(version, 0, 10 + Len(body), body) \o Mp3Audio)
ID3v2Streams == Prefixes(ID3v2Good(3)) \cup {ID3v2Good(2), ID3v2Good(4)}

\* streams with an ID3v1 trailer, and streams of no known format of the
\* lengths around the 11 peeked bytes and the 128 bytes of the trailer
ID3v1Good == Mp3Audio \o ID3v1Trailer(Lit.T, 1, 2)
ID3v1Streams == {ID3v1Good, ID3v1Trailer(Lit.T, 0, 0)}
Untagged == {<<1>> \o Zeros(n) : n \in {0, 9, 10, 11, 126, 127, 128}}

\* the complete files of the four formats with a magic at their start
WellFormed == {FlacGood, OggGood, OggSplit, Mp4Good, Mp4TitleOnly, ID3v2Good(2), ID3v2Good(3), ID3v2Good(4)}

\* streams on which two dispatch rules match: "ftypM4A" at offset 4 after
\* "fLaC", "OggS" or "ID3"
TwoMagics == {m \o Lit.ftypM4A \o Zeros(5) : m \in {Lit.fLaC, Lit.OggS, Lit.ID3 \o <<3>>}}

Streams ==
  FlacStreams \cup OggStreams \cup Mp4Streams \cup ID3v2Streams \cup ID3v1Streams \cup Untagged
    \cup TwoMagics

VARIABLES
  data,     \* the bytes of the io.ReadSeeker handed to the parser
  pos,      \* its read position
  op,       \* "open", then the function called on the stream
  entry,    \* the position the stream had when that function was called
  ret,      \* what it returned: Metadata, error, decoders invoked
  acc,      \* the accessor called last on the Metadata, and what it yielded
  payload,  \* checksums: the audio payload the streams are built around
  sums,     \* checksums: what Sum and Hash have returned, by function and stream
  uin,      \* unsynchroniser: the bytes of the underlying reader
  upos,     \* unsynchroniser: read position of the underlying reader
  ff,       \* unsynchroniser.ff
  out,      \* concatenation of the bytes delivered by Read so far
  lastLen,  \* len(p) of the latest Read call (0 before the first call)
  lastN,    \* n returned by the latest Read call
  lastErr   \* err returned by the latest Read call

pvars == <<data, pos, op, entry, ret, acc>>
svars == <<payload, sums>>
uvars == <<uin, upos, ff, out, lastLen, lastN, lastErr>>
vars == <<data, pos, op, entry, ret, acc, payload, sums, uin, upos, ff, out, lastLen, lastN, lastErr>>

NoRet == [meta |-> NoMeta, err |-> Nil, called |-> <<>>, decErr |-> Nil]
NoAcc == [name |-> "none", res |-> Val(<<>>)]

\* no stream is being parsed
ParserIdle ==
  /\ data = <<>>
  /\ pos = 0
  /\ op = "idle"
  /\ entry = 0
  /\ ret = NoRet
  /\ acc = NoAcc

\* no unsynchroniser is in use
UnsyncIdle ==
  /\ uin = <<>>
  /\ upos = 0
  /\ ff = FALSE
  /\ out = <<>>
  /\ lastLen = 0
  /\ lastN = 0
  /\ lastErr = Nil

\* no checksum is being computed
SumIdle ==
  /\ payload = <<>>
  /\ sums = EmptyMap

Decoders == {"FLAC", "OGG", "MP4", "ID3v2", "ID3v1"}

\* a stream is opened: the reader is at its start
Open(streams) ==
  /\ data \in streams
  /\ pos = 0
  /\ op = "open"
  /\ entry = 0
  /\ ret = NoRet
  /\ acc = NoAcc

Init == Open(Streams) /\ UnsyncIdle /\ SumIdle

\* tag.ReadFrom(r) on the opened stream
CallReadFrom ==
  \E r \in {ReadFrom(data, pos)} :
    /\ op = "open"
    /\ op' = "ReadFrom"
    /\ entry' = pos
    /\ pos' = r.pos
    /\ ret' = [meta |-> r.meta, err |-> r.err, called |-> r.called, decErr |-> r.decErr]
    /\ UNCHANGED <<data, acc, uvars, svars>>

\* one of the decoders called directly on the opened stream
CallDecoder ==
  \E name \in Decoders :
    \E r \in {runDecoder(name, data, pos)} :
      /\ op = "open"
      /\ op' = name
      /\ entry' = pos
      /\ pos' = r.pos
      /\ ret' = [meta |-> r.meta, err |-> r.err, called |-> <<name>>, decErr |-> r.err]
      /\ UNCHANGED <<data, acc, uvars, svars>>

\* an accessor of the Metadata a call has returned without error; a panic
\* ends the program
CallAccessor ==
  \E a \in Accessors, artFirst \in BOOLEAN :
    /\ op \notin {"open", "idle"}
    /\ ret.err = Nil
    /\ ret.meta # NoMeta
    /\ acc.res.err = Nil
    /\ acc' = [name |-> a, res |-> access(ret.meta, a, artFirst)]
    /\ UNCHANGED <<data, pos, op, entry, ret, uvars, svars>>

Next == CallReadFrom \/ CallDecoder \/ CallAccessor

Spec == Init /\ [][Next]_vars

\* ------------------------------------------------- ID3v2 tags, any content
\* longest frame payload
MaxPayload == 4

\* payload bytes: NUL (ISO-8859-1 encoding byte, terminator), 1 (UTF-16
\* with BOM encoding byte), and the two bytes of a byte order mark
PayloadBytes == {0, 1, 254, 255}

\* frame names of the three versions: text, comment, lyrics, picture
FrameNamesOf(version) == IF version = 2 THEN {Lit.TT2, Lit.COM, Lit.PIC} ELSE {Lit.TIT2, Lit.COMM, Lit.USLT, Lit.APIC}

\* the format flags byte: none, data length indicator, unsynchronisation
FrameFlagBytes == {0, 1, 2}

\* a tag of one frame with an arbitrary payload of the declared size,
\* followed by audio
FrameStreams ==
  UNION {{ID3v2Tag(version, 0, 10 + Len(Frame(version, name, Len(p), flags, p)),
                   Frame(version, name, Len(p), flags, p)) \o Mp3Audio :
            name \in FrameNamesOf(version), flags \in FrameFlagBytes,
            p \in SeqsUpTo(PayloadBytes, MaxPayload)} : version \in {2, 3, 4}}

FramesInit == Open(FrameStreams) /\ UnsyncIdle /\ SumIdle

SpecFrames == FramesInit /\ [][Next]_vars

\* ------------------------------------------------------------ checksums
\* audio payloads: bytes that hold no magic, of the lengths around the 11
\* peeked bytes and the 128 bytes of the trailer
Audio(n) == [i \in 1..n |-> 1 + (i % 7)]
AudioLens == {0, 1, 11, 12, 118, 127, 128, 129, 140}

\* the frame area of an ID3v2.3 tag holding a title of one character
FrameArea(c) == Frame(3, Lit.TIT2, 12, 0, <<0, c>> \o Zeros(10))

\* the streams built around the audio payload a
SumStreams(a) ==
  [plain |-> a,
   id3v2 |-> ID3v2Tag(3, 0, Len(FrameArea(84)), FrameArea(84)) \o a,
   id3v2x |-> ID3v2Tag(3, 0, Len(FrameArea(85)), FrameArea(85)) \o a,
   id3v1 |-> a \o ID3v1Trailer(Lit.T, 1, 2),
   mp4 |-> Mp4File(DataAtom(AtomKey.nam, 1, Lit.T), a),
   mdat |-> Atom(Lit.ftyp, Lit.M4A_ \o Zeros(4)) \o Atom(Lit.mdat, a)]

StreamNames == {"plain", "id3v2", "id3v2x", "id3v1", "mp4", "mdat"}

SumInit ==
  /\ payload \in {Audio(n) : n \in AudioLens}
  /\ sums = EmptyMap
  /\ ParserIdle
  /\ UnsyncIdle

\* tag.Sum on a fresh reader of one of the streams
CallSum ==
  \E s \in StreamNames :
    /\ ~Has(sums, <<"Sum", s>>)
    /\ sums' = Put(sums, <<"Sum", s>>, Sum(SumStreams(payload)[s], 0))
    /\ UNCHANGED <<payload, pvars, uvars>>

\* tag.Hash on a fresh reader of one of the streams
CallHash ==
  \E s \in StreamNames :
    /\ ~Has(sums, <<"Hash", s>>)
    /\ sums' = Put(sums, <<"Hash", s>>, Hash(SumStreams(payload)[s], 0))
    /\ UNCHANGED <<payload, pvars, uvars>>

SumNext == CallSum \/ CallHash

SpecSum == SumInit /\ [][SumNext]_vars

\* what a caller sees of a result: whether it is an error, and the digest
Seen(r) == IF r.err # Nil THEN [err |-> TRUE, sum |-> sha1(<<>>)] ELSE [err |-> FALSE, sum |-> r.sum]

Done(f, s) == Has(sums, <<f, s>>)
Result(f, s) == Seen(sums[<<f, s>>])

\* C8: Sum returns the same digest for the payload alone, behind an ID3v2
\* tag, and in front of an ID3v1 trailer; stated for the payloads longer
\* than a trailer, for which each of the three streams is long enough to be
\* summed
SumInvariantUnderTags ==
  (Len(payload) > 128 /\ Done("Sum", "plain") /\ Done("Sum", "id3v2") /\ Done("Sum", "id3v1")) =>
    /\ ~Result("Sum", "plain").err
    /\ Result("Sum", "plain") = Result("Sum", "id3v2")
    /\ Result("Sum", "plain") = Result("Sum", "id3v1")

\* C9: two streams with ID3v2 tags of the same declared size that differ
\* only inside the frame area get the same digest, from Sum and from Hash
TagBytesDoNotMatter ==
  \A f \in {"Sum", "Hash"} :
    (Done(f, "id3v2") /\ Done(f, "id3v2x")) => Result(f, "id3v2") = Result(f, "id3v2x")

\* C10: on every stream Sum and Hash both fail or both return the same digest
SumIsHash ==
  \A s \in StreamNames :
    (Done("Sum", s) /\ Done("Hash", s)) => Result("Sum", s) = Result("Hash", s)

\* ------------------------------------------------------------ dispatch
\* the dispatch rules in their order: offset and bytes of the magic, decoder
Rules ==
  << [at |-> 0, magic |-> Lit.fLaC, dec |-> "FLAC"],
     [at |-> 0, magic |-> Lit.OggS, dec |-> "OGG"],
     [at |-> 4, magic |-> Lit.ftypM4A, dec |-> "MP4"],
     [at |-> 0, magic |-> Lit.ID3, dec |-> "ID3v2"] >>

Matching(d) ==
  {i \in 1..Len(Rules) :
     /\ Rules[i].at + Len(Rules[i].magic) <= Len(d)
     /\ SubSeq(d, Rules[i].at + 1, Rules[i].at + Len(Rules[i].magic)) = Rules[i].magic}

Expected(d) ==
  IF Matching(d) = {} THEN "ID3v1"
  ELSE Rules[CHOOSE i \in Matching(d) : \A j \in Matching(d) : i <= j].dec

\* ReadFrom has returned for a stream of at least 11 bytes
Dispatched == op = "ReadFrom" /\ Len(data) - entry >= 11

\* C1 as stated: for a stream of at least 11 bytes ReadFrom invokes exactly
\* one decoder, the one of the first matching rule (the ID3v1 trailer decoder
\* when none matches), and returns the error of that decoder as it is
DispatchErrorAsIs ==
  Dispatched =>
    /\ ret.called = <<Expected(Slice(data, entry, entry + 11))>>
    /\ ret.err = ret.decErr

\* C1 amended: as C1, except that the error ErrNotID3v1 of the ID3v1 trailer
\* decoder is returned as ErrNoTagsFound
DispatchFirstMatch ==
  Dispatched =>
    /\ ret.called = <<Expected(Slice(data, entry, entry + 11))>>
    /\ ret.err = IF ret.called = <<"ID3v1">> /\ ret.decErr = ErrNotID3v1 THEN ErrNoTagsFound
                 ELSE ret.decErr

\* ReadFrom has dispatched a stream on which both the "ID3" rule and the
\* earlier "ftypM4A" rule match, and the decoder has returned an error
DispatchWitness ==
  /\ Dispatched
  /\ Matching(data) = {3, 4}
  /\ ret.called = <<"MP4">>
  /\ ret.err # Nil

\* C2: on a well-formed FLAC, OGG, MP4 or ID3v2 file ReadFrom returns what
\* the selected decoder returns when called directly on the fresh stream:
\* the decoder starts at offset 0
PeekDoesNotConsume ==
  (op = "ReadFrom" /\ entry = 0 /\ data \in WellFormed) =>
    With(runDecoder(Expected(data), data, 0), LAMBDA direct :
      /\ ret.called = <<Expected(data)>>
      /\ ret.err = direct.err
      /\ ret.meta = direct.meta)

\* the stream has no magic of a format at its start and no "TAG" 128 bytes
\* before its end
NoEnvelope(d) == Matching(d) = {} /\ ~(Len(d) >= 128 /\ Slice(d, Len(d) - 128, Len(d) - 125) = Lit.TAG)

\* C3: ReadFrom returns ErrNoTagsFound for every stream without a recognized
\* envelope, whatever its length, and for no stream with a recognized one;
\* only ErrNotID3v1 of the ID3v1 decoder is mapped, other errors are returned
\* unchanged
NoTagsFoundIffNoEnvelope ==
  (op = "ReadFrom" /\ entry = 0) =>
    /\ NoEnvelope(data) => ret.err = ErrNoTagsFound
    /\ ~NoEnvelope(data) => ret.err # ErrNoTagsFound
    /\ ret.called # <<>> =>
         ret.err = IF ret.called = <<"ID3v1">> /\ ret.decErr = ErrNotID3v1 THEN ErrNoTagsFound
                   ELSE ret.decErr

\* C4: ReadFrom and the decoders return no Metadata together with an error
NoPartialMetadata == (op \in Decoders \cup {"ReadFrom"} /\ ret.err # Nil) => ret.meta = NoMeta

\* C5: ReadID3v2Tags returns metadata or an error, it does not panic
ID3v2NeverPanics == ("ID3v2" \in {ret.called[i] : i \in 1..Len(ret.called)}) => ret.err # Panic

\* the raw map of m holds none of the tags the accessors look up
NoTags(m) ==
  IF m.kind = "MP4" THEN DOMAIN m.data = {}
  ELSE IF m.kind \in {"FLAC", "VORBIS"} THEN DOMAIN m.c \subseteq {Lit.vendor} /\ m.p = NoPicture
  ELSE IF m.kind = "ID3v2"
       THEN \A a \in Accessors : ~Has(m.frames, frameName(a, m.header.Version))
  ELSE FALSE

\* C6: an accessor called on a Metadata returned without error does not fail,
\* and yields the default value when the tags are absent
AccessorsNeverFail ==
  acc.name # "none" =>
    /\ acc.res.err = Nil
    /\ NoTags(ret.meta) => acc.res.v = Default(acc.name)

\* -------------------------------------------------------- unsynchroniser
\* the bytes the filter is specified to deliver: the input without every
\* 0x00 that immediately follows a 0xFF
RECURSIVE Unsynchronised(_)
Unsynchronised(in) ==
  IF Len(in) = 0 THEN <<>>
  ELSE LET n == Len(in)
       IN  With(Unsynchronised(SubSeq(in, 1, n - 1)), LAMBDA front :
             IF n > 1 /\ in[n] = 0 /\ in[n - 1] = 255 THEN front
             ELSE Append(front, in[n]))

UnsyncBytes == {0, 1, 255}

UInit ==
  /\ uin \in SeqsUpTo(UnsyncBytes, MaxInput)
  /\ upos = 0
  /\ ff = FALSE
  /\ out = <<>>
  /\ lastLen = 0
  /\ lastN = 0
  /\ lastErr = Nil
  /\ ParserIdle
  /\ SumIdle

\* one call ur.Read(p) with a caller-chosen buffer length
URead ==
  \E k \in 1..MaxBuf :
    \E r \in {UnsynchroniserRead(uin, upos, ff, k)} :
      /\ lastErr = Nil
      /\ upos' = r.pos
      /\ ff' = r.ff
      /\ out' = out \o r.p
      /\ lastLen' = k
      /\ lastN' = r.n
      /\ lastErr' = r.err
      /\ UNCHANGED <<uin, pvars, svars>>

UNext == URead

SpecUnsync == UInit /\ [][UNext]_vars

\* C7: whatever the split into buffers, the delivered bytes are the input
\* read so far without each 0x00 that immediately follows a 0xFF, and a Read
\* fills its whole buffer without error while that many filtered bytes remain
UnsyncFiltersAcrossSplits ==
  /\ out = Unsynchronised(SubSeq(uin, 1, upos))
  /\ lastN <= lastLen
  /\ Len(Unsynchronised(uin)) - (Len(out) - lastN) >= lastLen => (lastN = lastLen /\ lastErr = Nil)
  /\ lastErr # Nil => (upos = Len(uin) /\ out = Unsynchronised(uin))

\* a split read has dropped an inserted 0x00 and later kept a genuine 0x00
UnsyncWitness ==
  /\ lastLen = 1
  /\ Len(uin) >= 3
  /\ upos >= 3
  /\ SubSeq(uin, 1, 3) = <<255, 0, 0>>
  /\ SubSeq(out, 1, 2) = <<255, 0>>

\* ------------------------------------------------ files with chosen tags
\* longest text of a text frame
MaxText == 3

\* text without NUL: 'H', 'i'
PlainTexts == SeqsUpTo({72, 105}, MaxText)

\* a stream that is only an ID3v2.3 header and one TIT2 frame holding the
\* UTF-8 text t; the header size is the total length of the frame
MinimalID3v2(t) ==
  With(Frame(3, Lit.TIT2, 1 + Len(t), 0, <<3>> \o t), LAMBDA frame :
    ID3v2Tag(3, 0, Len(frame), frame))

MinimalStreams == {MinimalID3v2(t) : t \in PlainTexts}

\* most frames of a generated tag
MaxFrames == 3

\* frame names "TIT2", "T   " and "T_0 "
DupNames == {Lit.TIT2, <<84, 32, 32, 32>>, <<84, 95, 48, 32>>}

NameSeqs == SeqsUpTo(DupNames, MaxFrames) \ {<<>>}

\* the i-th frame of a generated tag holds the one-character text "0" + i
MarkerText(i) == <<48 + i>>

\* an ID3v2.3 tag with one UTF-8 text frame per name of ns, then audio
DupTag(ns) ==
  With(Concat([i \in 1..Len(ns) |-> Frame(3, ns[i], 2, 0, <<3>> \o MarkerText(i))]), LAMBDA body :
    ID3v2Tag(3, 0, 10 + Len(body), body) \o Mp3Audio)

DupStreams == {DupTag(ns) : ns \in NameSeqs}

\* payloads of a frame that is flagged as unsynchronised: the text "X", the
\* text "XY", ten zero bytes
FlaggedPayloads == {<<3, 88>>, <<3, 88, 89>>, Zeros(10)}

FlaggedTexts == {<<72>>, <<72, 105>>}

\* an ID3v2.3/2.4 tag with a TALB frame whose format flags have the
\* unsynchronisation bit set, then a TIT2 frame with the UTF-8 text t, then audio
FlaggedTag(version, p, t) ==
  With(Frame(version, Lit.TALB, Len(p), 2, p) \o Frame(version, Lit.TIT2, 1 + Len(t), 0, <<3>> \o t),
       LAMBDA body : ID3v2Tag(version, 0, 10 + Len(body), body) \o Mp3Audio)

FlaggedStreams == {FlaggedTag(v, p, t) : v \in {3, 4}, p \in FlaggedPayloads, t \in FlaggedTexts}

\* text with NULs at any place: NUL and 'A'
NulTexts == SeqsUpTo({0, 65}, MaxText)

\* encoding bytes ISO-8859-1 and UTF-8
ByteEncodings == {0, 3}

\* an ID3v2.3 tag with one TIT2 frame holding t in the encoding enc, then audio
TextTag(enc, t) ==
  With(Frame(3, Lit.TIT2, 1 + Len(t), 0, <<enc>> \o t), LAMBDA body :
    ID3v2Tag(3, 0, 10 + Len(body), body) \o Mp3Audio)

TextStreams == {TextTag(enc, t) : enc \in ByteEncodings, t \in NulTexts}

\* most comments of a generated Vorbis comment block
MaxComments == 3

\* the comments "TITLE=T", "title=U", "Title=a=b" and "T"
CommentKinds ==
  {Lit.TITLE_T, Lit.title \o <<61, 85>>, <<84, 105, 116, 108, 101, 61, 97, 61, 98>>, Lit.T}

CommentLists == SeqsUpTo(CommentKinds, MaxComments)

\* a FLAC stream: stream info block, then a last block with the comments
FlacWithComments(cs) ==
  Lit.fLaC \o FlacBlock(0, FALSE, Zeros(4))
    \o FlacBlock(VorbisCommentBlock, TRUE, VorbisComments(<<120>>, cs))

CommentStreams == {FlacWithComments(cs) : cs \in CommentLists}

\* the metadata atoms moov/udta/meta/ilst around the given tag atoms
TagAtoms(tags) ==
  Atom(Lit.moov, Atom(Lit.udta, Atom(Lit.meta, Zeros(4) \o Atom(Lit.ilst, tags))))

\* no title, the title "A", the title "B"
TitleChoices == {<<>>, <<<<65>>>>, <<<<66>>>>}

TitleAtoms(ts) == Concat([i \in 1..Len(ts) |-> DataAtom(AtomKey.nam, 1, ts[i])])

\* an MP4 stream with title atoms before and after the mdat atom
MdatFile(before, after) ==
  Atom(Lit.ftyp, Lit.M4A_ \o Zeros(4))
    \o (IF before = <<>> THEN <<>> ELSE TagAtoms(TitleAtoms(before)))
    \o Atom(Lit.mdat, <<9, 9>>)
    \o (IF after = <<>> THEN <<>> ELSE TagAtoms(TitleAtoms(after)))

MdatStreams == {MdatFile(b, a) : b \in TitleChoices, a \in TitleChoices}

\* mean payloads "com.apple.iTunes" and "x", names "" and "N", data texts
\* "v" and "wx"
CustomMeans == {Lit.com_apple_iTunes, <<120>>}
CustomNames == {<<>>, <<78>>}
CustomValues == SeqsUpTo({<<118>>, <<119, 120>>}, 2)

\* a "----" atom: mean and name sub-atoms with 4 bytes of version/flags,
\* data sub-atoms with 4 bytes of version/flags (class text) and 4 of locale
CustomAtom(mean, name, values) ==
  Atom(Lit.dashes,
       Atom(Lit.mean, Zeros(4) \o mean) \o Atom(Lit.name, Zeros(4) \o name)
         \o Concat([i \in 1..Len(values) |-> Atom(Lit.data, BE(1, 4) \o Zeros(4) \o values[i])]))

CustomFile(mean, name, values) == Mp4File(CustomAtom(mean, name, values), <<9, 9>>)

CustomStreams ==
  {CustomFile(m, n, v) : m \in CustomMeans, n \in CustomNames, v \in CustomValues}

\* numbers and totals at the edges of one and two bytes
CountValues == {0, 1, 255, 256, 65535}

\* an MP4 stream with a trkn or disk atom: two reserved bytes, number and
\* total as 16-bit big-endian values, and for trkn two more reserved bytes
CountFile(kind, n, total) ==
  Mp4File(DataAtom(kind, 0, <<0, 0>> \o BE(n, 2) \o BE(total, 2)
                              \o (IF kind = AtomKey.trkn THEN <<0, 0>> ELSE <<>>)),
          <<9, 9>>)

CountStreams ==
  {CountFile(k, n, t) : k \in {AtomKey.trkn, AtomKey.disk}, n \in CountValues, t \in CountValues}

\* declared atom sizes below the 8 bytes of the atom header
SmallSizes == 0..7

\* an MP4 stream whose second atom, named free or ©nam, declares a size
\* below 8; four more bytes follow its header
UnderflowFile(name, size) ==
  Atom(Lit.ftyp, Lit.M4A_ \o Zeros(4)) \o BE(size, 4) \o name \o Zeros(4)

\* an MP4 stream with a "----" atom of 24 bytes whose mean sub-atom
\* declares a size below 8
CustomUnderflowFile(size) ==
  Atom(Lit.ftyp, Lit.M4A_ \o Zeros(4)) \o BE(24, 4) \o Lit.dashes \o BE(size, 4) \o Lit.mean \o Zeros(8)

UnderflowStreams ==
  {UnderflowFile(n, z) : n \in {Lit.free, AtomKey.nam}, z \in SmallSizes}
    \cup {CustomUnderflowFile(z) : z \in SmallSizes}

PicMimes == {Lit.image_jpeg, Lit.image_png, Lit.image_gif}

\* image formats of a PIC frame: "jpg", "png", "PNG", "xyz"
PicFormats == {Lit.jpg, Lit.png, <<80, 78, 71>>, <<120, 121, 122>>}

\* an ID3v2.3/2.4 tag with one APIC frame: ISO-8859-1, MIME type, front
\* cover, empty description, two bytes of data; then audio
ApicTag(version, mime) ==
  With(<<0>> \o mime \o <<0, 3, 0, 1, 2>>, LAMBDA p :
    With(Frame(version, Lit.APIC, Len(p), 0, p), LAMBDA body :
      ID3v2Tag(version, 0, 10 + Len(body), body) \o Mp3Audio))

\* an ID3v2.2 tag with one PIC frame: ISO-8859-1, three bytes of image
\* format, front cover, empty description, two bytes of data; then audio
PicTag(format) ==
  With(<<0>> \o format \o <<3, 0, 1, 2>>, LAMBDA p :
    With(Frame(2, Lit.PIC, Len(p), 0, p), LAMBDA body :
      ID3v2Tag(2, 0, 10 + Len(body), body) \o Mp3Audio))

\* a FLAC stream whose last block is a picture of the given MIME type
FlacPic(mime) ==
  Lit.fLaC \o FlacBlock(0, FALSE, Zeros(4))
    \o FlacBlock(PictureBlock, TRUE, FlacPicture(3, mime, <<>>, <<1, 2>>))

PictureStreams ==
  {ApicTag(v, m) : v \in {3, 4}, m \in PicMimes} \cup {PicTag(f) : f \in PicFormats}
    \cup {FlacPic(m) : m \in PicMimes}

\* MP4 streams with the artist "A" in a ©art atom, the artist "B" in a
\* ©ART atom, or both
ArtistFile(art, ART) ==
  Mp4File((IF art THEN DataAtom(AtomKey.art, 1, <<65>>) ELSE <<>>)
            \o (IF ART THEN DataAtom(AtomKey.ART, 1, <<66>>) ELSE <<>>), <<9, 9>>)

ArtistStreams == {ArtistFile(a, b) : a \in BOOLEAN, b \in BOOLEAN}

\* an MP4 stream whose tags are a "----" atom and then the title "A"
SiblingFile(mean, name, values) ==
  Mp4File(CustomAtom(mean, name, values) \o DataAtom(AtomKey.nam, 1, <<65>>), <<9, 9>>)

SiblingStreams ==
  {SiblingFile(m, n, v) : m \in CustomMeans, n \in CustomNames, v \in CustomValues}

\* the files the claims about single tags are checked on
FileStreams ==
  MinimalStreams \cup DupStreams \cup FlaggedStreams \cup TextStreams \cup CommentStreams
    \cup MdatStreams \cup CustomStreams \cup CountStreams \cup UnderflowStreams
    \cup PictureStreams \cup ArtistStreams \cup SiblingStreams

FilesInit == Open(FileStreams) /\ UnsyncIdle /\ SumIdle

SpecFiles == FilesInit /\ [][Next]_vars

\* C11: ReadFrom on a stream that is only an ID3v2.3 header and one UTF-8
\* TIT2 frame with text t returns no error and a Metadata with Title() = t
MinimalTitleDecodes ==
  \A t \in PlainTexts :
    (op = "ReadFrom" /\ entry = 0 /\ data = MinimalID3v2(t)) =>
      /\ ret.err = Nil
      /\ access(ret.meta, "Title", TRUE) = Val(t)

\* the keys ReadID3v2Tags adds for the audio stream
StreamInfoKeys ==
  {Lit.stream_type, Lit.stream_bitrate, Lit.stream_audio, Lit.stream_size, Lit.stream_length}

\* the entries of a raw map that come from frames
TagKeys(f) == DOMAIN f \ StreamInfoKeys

\* how many frames before the i-th have its name
Rank(ns, i) == Cardinality({j \in 1..(i - 1) : TrimSpace(ns[j]) = TrimSpace(ns[i])})

\* the key N, N_0, N_1, ... of the i-th frame when counting occurrences
CountedKey(ns, i) ==
  IF Rank(ns, i) = 0 THEN TrimSpace(ns[i])
  ELSE TrimSpace(ns[i]) \o <<95>> \o Itoa(Rank(ns, i) - 1)

\* k is n followed by '_' and a decimal number
IsSuffixed(k, n) ==
  /\ Len(k) > Len(n) + 1
  /\ SubSeq(k, 1, Len(n)) = n
  /\ k[Len(n) + 1] = 95
  /\ \A j \in (Len(n) + 2)..Len(k) : IsDigit(k[j])

\* no frame of the tag has a name that is another frame's name with a counter
NoCounterNames(ns) ==
  \A i, j \in 1..Len(ns) : ~IsSuffixed(TrimSpace(ns[i]), TrimSpace(ns[j]))

\* C12 as stated: k occurrences of a name N produce the entries N, N_0, ...,
\* N_(k-2) in order of occurrence, each holding the value of its own frame
DuplicatesCountedInOrder ==
  \A ns \in NameSeqs :
    (op = "ReadFrom" /\ data = DupTag(ns)) =>
      /\ ret.err = Nil
      /\ \A i \in 1..Len(ns) :
           /\ Has(ret.meta.frames, CountedKey(ns, i))
           /\ ret.meta.frames[CountedKey(ns, i)] = StringVal(MarkerText(i))

\* C12 amended: frames with the same name never overwrite each other: every
\* frame has its own entry holding its value, under its name N or under N_i
\* for a counter i; the keys are N, N_0, ..., N_(k-2) in order of occurrence
\* when no frame of the tag is itself named like a counted key
DuplicatesNeverOverwrite ==
  \A ns \in NameSeqs :
    (op = "ReadFrom" /\ data = DupTag(ns)) =>
      /\ ret.err = Nil
      /\ Cardinality(TagKeys(ret.meta.frames)) = Len(ns)
      /\ \A i \in 1..Len(ns) :
           \E k \in TagKeys(ret.meta.frames) :
             /\ ret.meta.frames[k] = StringVal(MarkerText(i))
             /\ k = TrimSpace(ns[i]) \/ IsSuffixed(k, TrimSpace(ns[i]))
             /\ NoCounterNames(ns) => k = CountedKey(ns, i)

\* C12 witness: "T_0", "T", "T" are stored under T_0, T and T_1
DuplicatesWitness ==
  /\ op = "ReadFrom"
  /\ data = DupTag(<<<<84, 95, 48, 32>>, <<84, 32, 32, 32>>, <<84, 32, 32, 32>>>>)
  /\ ret.err = Nil
  /\ Has(ret.meta.frames, <<84, 95, 49>>)
  /\ ret.meta.frames[<<84, 95, 49>>] = StringVal(MarkerText(3))

\* C13: a frame with the per-frame unsynchronisation flag adds no entry and
\* the decoder resumes at the next frame header: the frame after it is
\* decoded with the name and value it has in the tag
FlaggedFrameSkipped ==
  \A v \in {3, 4}, p \in FlaggedPayloads, t \in FlaggedTexts :
    (op = "ReadFrom" /\ data = FlaggedTag(v, p, t)) =>
      /\ ret.err = Nil
      /\ TagKeys(ret.meta.frames) = {Lit.TIT2}
      /\ ret.meta.frames[Lit.TIT2] = StringVal(t)

\* ------------------------------------------------ synchsafe integers
\* byte values at the edges of the 7-bit range
ChunkBytes == {0, 1, 127, 128, 255}

\* the four size bytes of a header, and the shorter inputs of the unit test
ChunkInputs ==
  [1..4 -> ChunkBytes] \cup {<<>>, <<1>>, <<127, 127>>}

\* get7BitChunkedInt(b) on the opened bytes
CallGet7BitChunkedInt ==
  /\ op = "open"
  /\ op' = "get7BitChunkedInt"
  /\ ret' = [n |-> get7BitChunkedInt(data)]
  /\ UNCHANGED <<data, pos, entry, acc, uvars, svars>>

ChunkedInit == Open(ChunkInputs) /\ UnsyncIdle /\ SumIdle

SpecChunked == ChunkedInit /\ [][CallGet7BitChunkedInt]_vars

\* C14: for every 4-byte input only the low 7 bits of each byte count:
\* the result is the sum of (b[i] mod 128) * 128^(3-i), so it never
\* exceeds 2^28 - 1
ChunkedIntUsesLowBits ==
  (op = "get7BitChunkedInt" /\ Len(data) = 4) =>
    /\ ret.n = (data[1] % 128) * 2097152 + (data[2] % 128) * 16384
                 + (data[3] % 128) * 128 + (data[4] % 128)
    /\ ret.n <= 268435455

\* t without the NULs at its end
RECURSIVE TrimTrailingNULs(_)
TrimTrailingNULs(t) ==
  IF Len(t) > 0 /\ t[Len(t)] = 0 THEN TrimTrailingNULs(SubSeq(t, 1, Len(t) - 1)) ELSE t

\* C15: the value of a text frame is the decoded text with only its
\* trailing NULs removed; a NUL followed by further text is kept
TextKeepsInteriorNULs ==
  \A enc \in ByteEncodings, t \in NulTexts :
    (op = "ReadFrom" /\ data = TextTag(enc, t)) =>
      /\ ret.err = Nil
      /\ Has(ret.meta.frames, Lit.TIT2)
      /\ ret.meta.frames[Lit.TIT2] = StringVal(TrimTrailingNULs(t))

\* ------------------------------------------------ OGG packet reassembly
\* most pages of a generated OGG stream
MaxPages == 3

\* a page: header-type flag and the payloads of its segments
PageKinds ==
  [flag : {0, 1}, parts : {<<>>, <<<<7>>>>, <<<<8>>, <<9>>>>}]

PageSeqs == SeqsUpTo(PageKinds, MaxPages)

Payload(pg) == Concat(pg.parts)

\* the bytes of a page: capture pattern, 22 header bytes of which the second
\* is the flag, segment count, segment table, payload
PageBytes(pg) ==
  Lit.OggS \o <<0, pg.flag>> \o Zeros(20) \o <<Len(pg.parts)>>
    \o [i \in 1..Len(pg.parts) |-> Len(pg.parts[i])] \o Payload(pg)

PagesBytes(ps) == Concat([i \in 1..Len(ps) |-> PageBytes(ps[i])])

PageStreams == {PagesBytes(ps) : ps \in PageSeqs}

\* readPackets(r) on the opened stream
CallReadPackets ==
  \E r \in {readPackets(data, pos)} :
    /\ op = "open"
    /\ op' = "readPackets"
    /\ entry' = pos
    /\ pos' = r.pos
    /\ ret' = [err |-> r.err, b |-> r.b]
    /\ UNCHANGED <<data, acc, uvars, svars>>

PacketsInit == Open(PageStreams) /\ UnsyncIdle /\ SumIdle

SpecPackets == PacketsInit /\ [][CallReadPackets]_vars

\* the pages after the first that are not continuation pages
Terminators(ps) == {j \in 2..Len(ps) : ps[j].flag % 2 = 0}

FirstTerminator(ps) == CHOOSE j \in Terminators(ps) : \A k \in Terminators(ps) : j <= k

\* C16: readPackets succeeds only after it has met a page that is neither
\* the first page read nor a continuation page; then the buffer is the
\* concatenation of the payloads of the pages before that page and the
\* stream position is the offset of that page's capture pattern
PacketsReassembled ==
  op = "readPackets" =>
    \A ps \in PageSeqs :
      data = PagesBytes(ps) =>
        IF Terminators(ps) = {} THEN ret.err # Nil
        ELSE /\ ret.err = Nil
             /\ ret.b = Concat([i \in 1..(FirstTerminator(ps) - 1) |-> Payload(ps[i])])
             /\ pos = Len(PagesBytes(SubSeq(ps, 1, FirstTerminator(ps) - 1)))

\* C16 witness: a first page, a continuation page and a terminating page
PacketsWitness ==
  /\ op = "readPackets"
  /\ data = PagesBytes(<<[flag |-> 0, parts |-> <<<<7>>>>],
                         [flag |-> 1, parts |-> <<<<8>>, <<9>>>>],
                         [flag |-> 0, parts |-> <<<<7>>>>]>>)
  /\ ret.err = Nil
  /\ ret.b = <<7, 8, 9>>
  /\ pos = 29 + 31

\* the 1-based index of the first '=' of a comment, 0 if it has none
FirstEq(c) ==
  IF \E i \in 1..Len(c) : c[i] = 61
  THEN CHOOSE i \in 1..Len(c) : c[i] = 61 /\ \A j \in 1..(i - 1) : c[j] # 61
  ELSE 0

LowerASCII(k) == [i \in 1..Len(k) |-> IF k[i] >= 65 /\ k[i] <= 90 THEN k[i] + 32 ELSE k[i]]

\* the lowercased text before the first '=' and the text after it
KeyOf(c) == LowerASCII(SubSeq(c, 1, FirstEq(c) - 1))
ValueOf(c) == SubSeq(c, FirstEq(c) + 1, Len(c))

\* the i-th comment is the last one with its key
IsLastOfKey(cs, i) == \A j \in (i + 1)..Len(cs) : KeyOf(cs[j]) # KeyOf(cs[i])

\* C17: each Vorbis comment is split at its first '=', the key is
\* lowercased, of comments whose keys are equal up to case the last one is
\* kept, and a comment without '=' makes the decode fail; the title
\* comment is what Title() returns
CommentsSplitAndFolded ==
  \A cs \in CommentLists :
    (op \in {"ReadFrom", "FLAC"} /\ data = FlacWithComments(cs)) =>
      IF \E i \in 1..Len(cs) : FirstEq(cs[i]) = 0 THEN ret.err # Nil
      ELSE /\ ret.err = Nil
           /\ DOMAIN ret.meta.c = {Lit.vendor} \cup {KeyOf(cs[i]) : i \in 1..Len(cs)}
           /\ \A i \in 1..Len(cs) :
                IsLastOfKey(cs, i) =>
                  /\ ret.meta.c[KeyOf(cs[i])] = ValueOf(cs[i])
                  /\ KeyOf(cs[i]) = Lit.title =>
                       access(ret.meta, "Title", TRUE) = Val(ValueOf(cs[i]))

\* C17 witness: TITLE=T followed by Title=a=b leaves title = "a=b"
CommentsWitness ==
  /\ op = "ReadFrom"
  /\ data = FlacWithComments(<<Lit.TITLE_T, <<84, 105, 116, 108, 101, 61, 97, 61, 98>>>>)
  /\ ret.err = Nil
  /\ ret.meta.c[Lit.title] = <<97, 61, 98>>
  /\ access(ret.meta, "Title", TRUE) = Val(<<97, 61, 98>>)

\* C18: the atom scan ends at the mdat header: no atom after mdat adds or
\* changes an entry, the metadata is that of the atoms before mdat
MdatEndsScan ==
  \A b \in TitleChoices, a \in TitleChoices :
    (op = "MP4" /\ entry = 0 /\ data = MdatFile(b, a)) =>
      /\ ret.err = Nil
      /\ ret.meta.data = IF b = <<>> THEN EmptyMap ELSE (AtomKey.nam :> StringVal(b[1]))

\* the texts joined with ';'
RECURSIVE JoinSemicolon(_)
JoinSemicolon(vs) ==
  IF Len(vs) = 0 THEN <<>>
  ELSE IF Len(vs) = 1 THEN vs[1]
  ELSE vs[1] \o <<59>> \o JoinSemicolon(Tail(vs))

\* C19: a "----" atom adds an entry only if its mean is com.apple.iTunes
\* and its name is non-empty; the key is the name and the value is the
\* data sub-atoms' texts joined with ';', a text being the bytes after the
\* version/flags and locale fields
CustomAtomText ==
  \A m \in CustomMeans, n \in CustomNames, v \in CustomValues :
    (op = "MP4" /\ entry = 0 /\ data = CustomFile(m, n, v)) =>
      /\ ret.err = Nil
      /\ (m # Lit.com_apple_iTunes \/ n = <<>>) => ret.meta.data = EmptyMap
      /\ (m = Lit.com_apple_iTunes /\ n # <<>> /\ v # <<>>) =>
           ret.meta.data = (n :> StringVal(JoinSemicolon(v)))

\* C20: Track() and Disc() return the number and the total stored as
\* 16-bit big-endian values in the trkn and disk atoms
CountsAre16Bit ==
  \A k \in {AtomKey.trkn, AtomKey.disk}, n \in CountValues, t \in CountValues :
    (op = "MP4" /\ entry = 0 /\ data = CountFile(k, n, t)) =>
      /\ ret.err = Nil
      /\ access(ret.meta, IF k = AtomKey.trkn THEN "Track" ELSE "Disc", TRUE) = Val(<<n, t>>)

\* C21: an atom, or a sub-atom of "----", whose declared size is below its
\* 8-byte header makes ReadAtoms return an error: the decode never reports
\* success for such a stream
UndersizedAtomIsError ==
  \A z \in SmallSizes :
    /\ \A n \in {Lit.free, AtomKey.nam} :
         (op = "MP4" /\ entry = 0 /\ data = UnderflowFile(n, z)) => ret.err # Nil
    /\ (op = "MP4" /\ entry = 0 /\ data = CustomUnderflowFile(z)) => ret.err # Nil

\* the extension the fixed mapping gives a MIME type
MappedExt(mime) ==
  IF mime = Lit.image_jpeg THEN Lit.jpg
  ELSE IF mime = Lit.image_png THEN Lit.png
  ELSE IF mime = Lit.image_gif THEN Lit.gif
  ELSE <<>>

\* C22: the Ext of every decoded picture comes from the fixed mapping
\* image/jpeg -> jpg, image/png -> png, image/gif -> gif and is never a
\* verbatim copy of bytes of the file
PictureExtIsMapped ==
  /\ \A v \in {3, 4}, m \in PicMimes :
       (op = "ReadFrom" /\ data = ApicTag(v, m)) =>
         /\ ret.err = Nil
         /\ Has(ret.meta.frames, Lit.APIC)
         /\ ret.meta.frames[Lit.APIC].Ext = MappedExt(m)
  /\ \A m \in PicMimes :
       (op = "ReadFrom" /\ data = FlacPic(m)) =>
         /\ ret.err = Nil
         /\ ret.meta.p.Ext = MappedExt(m)
  /\ \A f \in PicFormats :
       (op = "ReadFrom" /\ data = PicTag(f)) =>
         /\ ret.err = Nil
         /\ Has(ret.meta.frames, Lit.PIC)
         /\ ret.meta.frames[Lit.PIC].Ext \in {Lit.jpg, Lit.png, Lit.gif, <<>>}

\* ------------------------------------------------ the map behind Raw()
\* Raw(): metadataID3v2 returns m.frames and metadataMP4 returns m.data,
\* the maps the accessors read; metadataFLAC returns a copy of m.c
Raw(m) ==
  IF m.kind = "ID3v2" THEN [map |-> m.frames, shared |-> TRUE]
  ELSE IF m.kind = "MP4" THEN [map |-> m.data, shared |-> TRUE]
  ELSE [map |-> m.c, shared |-> FALSE]

\* the caller of a decode takes raw := m.Raw() and, before anything else,
\* deletes an entry of raw or sets raw[k] to the text "X"; a map that is
\* shared with the Metadata changes there as well
MutateRaw ==
  /\ op \notin {"open", "idle"}
  /\ ret.err = Nil
  /\ ret.meta # NoMeta
  /\ ret.meta.kind \in {"ID3v2", "MP4", "FLAC", "VORBIS"}
  /\ acc = NoAcc
  /\ \E r \in {Raw(ret.meta)} :
       \E k \in DOMAIN r.map \cup {Lit.T}, delete \in BOOLEAN :
         \E f \in {IF delete THEN [x \in DOMAIN r.map \ {k} |-> r.map[x]]
                   ELSE Put(r.map, k, IF r.shared THEN StringVal(<<88>>) ELSE <<88>>)} :
           /\ acc' = [name |-> "Raw", res |-> Val(f)]
           /\ ret' = IF ~r.shared THEN ret
                     ELSE IF ret.meta.kind = "ID3v2" THEN [ret EXCEPT !.meta.frames = f]
                     ELSE [ret EXCEPT !.meta.data = f]
  /\ UNCHANGED <<data, pos, op, entry, uvars, svars>>

RawNext == CallReadFrom \/ CallDecoder \/ CallAccessor \/ MutateRaw

SpecRaw == FilesInit /\ [][RawNext]_vars

\* what the call that produced ret returns on the stream
Decoded ==
  IF op = "ReadFrom" THEN ReadFrom(data, entry).meta ELSE runDecoder(op, data, entry).meta

\* C23: a returned Metadata is immutable: changing the map obtained from
\* Raw() changes nothing the Metadata yields later, it stays what the
\* decode call returned
RawMutationInvisible ==
  (op \notin {"open", "idle"} /\ ret.err = Nil /\ ret.meta # NoMeta) => ret.meta = Decoded

\* C24: decoding is a deterministic function of the bytes: every decode of
\* a stream gives the same Artist(), also when the stream holds a ©art and
\* a ©ART atom with different values; the result is the one of the decode
\* in which the atom-name table is iterated with ©art first
ArtistIsDeterministic ==
  (op = "MP4" /\ data \in ArtistStreams /\ acc.name = "Artist") =>
    acc.res = access(ret.meta, "Artist", TRUE)

\* ------------------------------------------------ "x of n" strings
\* longest generated string
MaxStr == 3

\* the characters '1', '2', '/', ' ', 'x'
XofNChars == {49, 50, 47, 32, 120}

\* the strings of the unit test: "", "1", "0/2", "1/2", "1 / 2", "1/", "/2"
XofNTests ==
  {<<>>, <<49>>, <<48, 47, 50>>, <<49, 47, 50>>, <<49, 32, 47, 32, 50>>, <<49, 47>>, <<47, 50>>}

XofNInputs == SeqsUpTo(XofNChars, MaxStr) \cup XofNTests

\* parseXofN(s) on a string
CallParseXofN ==
  /\ op = "open"
  /\ op' = "parseXofN"
  /\ ret' = [xn |-> parseXofN(data)]
  /\ UNCHANGED <<data, pos, entry, acc, uvars, svars>>

XofNInit == Open(XofNInputs) /\ UnsyncIdle /\ SumIdle

SpecXofN == XofNInit /\ [][CallParseXofN]_vars

\* s without the spaces at its ends
RECURSIVE Trimmed(_)
Trimmed(s) ==
  IF Len(s) > 0 /\ s[1] = 32 THEN Trimmed(Tail(s))
  ELSE IF Len(s) > 0 /\ s[Len(s)] = 32 THEN Trimmed(SubSeq(s, 1, Len(s) - 1))
  ELSE s

\* the value of a string of decimal digits
RECURSIVE Decimal(_)
Decimal(s) == IF Len(s) = 0 THEN 0 ELSE Decimal(SubSeq(s, 1, Len(s) - 1)) * 10 + (s[Len(s)] - 48)

\* the integer a string denotes, 0 when it is empty or not a number
NumberOr0(s) ==
  IF Len(s) > 0 /\ \A i \in 1..Len(s) : s[i] >= 48 /\ s[i] <= 57 THEN Decimal(s) ELSE 0

\* C25: with exactly one '/' parseXofN returns the integers of the
\* space-trimmed parts before and after it (0 for an empty part or one that
\* is not a number), otherwise the integer value of s and 0
XofNParsed ==
  op = "parseXofN" =>
    IF Cardinality({i \in 1..Len(data) : data[i] = 47}) = 1
    THEN \E i \in 1..Len(data) :
           /\ data[i] = 47
           /\ ret.xn = <<NumberOr0(Trimmed(SubSeq(data, 1, i - 1))),
                         NumberOr0(Trimmed(SubSeq(data, i + 1, Len(data))))>>
    ELSE ret.xn = <<NumberOr0(data), 0>>

\* C25 witness: "1 / 2" gives (1, 2)
XofNWitness ==
  /\ op = "parseXofN"
  /\ data = <<49, 32, 47, 32, 50>>
  /\ ret.xn = <<1, 2>>

\* --------------------------------------- ID3v2.2 tags of their exact size
\* an ID3v2.2 tag of k TT2 frames of 8 bytes (ISO-8859-1 text of one
\* character) whose header size is the length of the frames, then audio
ExactTag(k) ==
  With(Concat([i \in 1..k |-> Frame(2, Lit.TT2, 2, 0, <<0>> \o MarkerText(i))]), LAMBDA body :
    ID3v2Tag(2, 0, Len(body), body) \o Mp3Audio)

ExactStreams == {ExactTag(k) : k \in 1..MaxFrames}

\* ------------------------------------------- the decode loops, step by step
\* the loops of the decoders
Loops == {"readID3v2Frames", "readAtoms", "readCustomAtom", "ReadFLACTags", "readPackets", "getMp3Infos"}

\* largest position at which a loop is entered that a caller can enter
\* anywhere (the others are entered where their caller has read a header)
MaxEntry == 12

\* the streams the loops are run on
LoopStreams == Streams \cup CustomStreams \cup FlaggedStreams \cup UnderflowStreams \cup ExactStreams

\* the states in which the loop called name can be entered on stream d at
\* position q: s is what changes from one iteration to the next, us and h
\* are the reader mode and the tag header readID3v2Frames is called with
loopEntry(name, d, q) ==
  LET enter(s, us, h) == [s |-> s, us |-> us, h |-> h]
      none == [Version |-> 0, Size |-> 0]
  IN  IF name = "readID3v2Frames"
      THEN {enter([done |-> FALSE, q |-> q, f |-> FALSE, offset |-> 10, result |-> EmptyMap],
                  hd.h.Unsynchronisation, hd.h) :
              hd \in {x \in {readID3v2Header(d, 0)} : x.err = Nil /\ x.pos = q}}
      ELSE IF name = "readAtoms"
      THEN {enter([done |-> FALSE, q |-> q, data |-> EmptyMap], FALSE, none)}
      ELSE IF name = "readCustomAtom"
      THEN {enter([done |-> FALSE, q |-> q, size |-> h.size, sub |-> [mean |-> <<>>, name |-> <<>>],
                   data |-> <<>>], FALSE, none) :
              h \in {x \in {readAtomHeader(d, Max(q - 8, 0))} :
                       q >= 8 /\ x.err = Nil /\ x.name = Lit.dashes}}
      ELSE IF name = "ReadFLACTags"
      THEN {enter([done |-> FALSE, q |-> q, m |-> [kind |-> "FLAC", c |-> EmptyMap, p |-> NoPicture]],
                  FALSE, none)}
      ELSE IF name = "readPackets"
      THEN {enter([done |-> FALSE, q |-> q, firstPage |-> TRUE, buf |-> <<>>], FALSE, none)}
      ELSE {enter([done |-> FALSE, q |-> q, h |-> h, buf |-> Zeros(8), frameCount |-> 0, nbscan |-> 50,
                   pos |-> 0], FALSE, none) :
              h \in {NoMp3Infos, readHeader(NoMp3Infos, Mp3Frame).h}}

\* one iteration of the loop called name from the state l
loopStep(name, d, l) ==
  IF name = "readID3v2Frames"
  THEN readID3v2FramesStep(d, l.s.q, l.s.f, l.us, l.h, l.s.offset, l.s.result)
  ELSE IF name = "readAtoms" THEN readAtomsStep(d, l.s.q, l.s.data)
  ELSE IF name = "readCustomAtom" THEN readCustomAtomStep(d, l.s.q, l.s.size, l.s.sub, l.s.data)
  ELSE IF name = "ReadFLACTags" THEN readFLACBlocksStep(d, l.s.q, l.s.m)
  ELSE IF name = "readPackets" THEN readPacketsStep(d, l.s.q, l.s.firstPage, l.s.buf)
  ELSE scanFramesStep(d, l.s.q, l.s.h, l.s.buf, l.s.frameCount, l.s.nbscan, l.s.pos)

\* a loop is entered
LoopsInit ==
  /\ \E d \in LoopStreams :
       \E q \in 0..Len(d), name \in Loops :
         /\ name \in {"readID3v2Frames", "readCustomAtom"} \/ q <= MaxEntry
         /\ data = d
         /\ pos = q
         /\ op = name
         /\ entry = q
         /\ ret \in loopEntry(name, d, q)
  /\ acc = NoAcc
  /\ UnsyncIdle
  /\ SumIdle

\* the loop runs one iteration
LoopIteration ==
  /\ op \in Loops
  /\ ~ret.s.done
  /\ \E s \in {loopStep(op, data, ret)} :
       /\ ret' = [ret EXCEPT !.s = s]
       /\ pos' = IF s.done THEN s.r.pos ELSE s.q
  /\ UNCHANGED <<data, op, entry, acc, uvars, svars>>

SpecLoops == LoopsInit /\ [][LoopIteration]_vars

\* what an iteration has to increase: the offset counter of
\* readID3v2Frames, the stream position of the other loops
Measure(name, s) == IF name = "readID3v2Frames" THEN s.offset ELSE s.q

\* what the loop called name stops at: header.Size, the end of the stream
Limit(name, l) == IF name = "readID3v2Frames" THEN l.h.Size ELSE Len(data)

\* C26: every iteration of a decode loop either returns or strictly
\* increases the stream position (readID3v2Frames: the offset counter), and
\* an iteration that does not return started below the end of the stream
\* (readID3v2Frames: below header.Size), so no loop runs forever
LoopsMakeProgress ==
  [][ret'.s.done \/ (Measure(op, ret'.s) > Measure(op, ret.s) /\ Measure(op, ret.s) < Limit(op, ret))]_vars

\* C26 witness: the frame scan has stepped over a byte that starts neither
\* a frame nor an ID3v1 tag and goes on one byte further
LoopsWitness == op = "getMp3Infos" /\ ~ret.s.done /\ pos = entry + 1

\* C27: readID3v2Frames reads every frame that lies within the header.Size
\* bytes after the tag header: called on a tag of k frames that fill
\* header.Size exactly, it returns k frames, whether header.Size is at most
\* 10 (k = 1) or not
FramesWithinSizeRead ==
  \A k \in 1..MaxFrames :
    (op = "readID3v2Frames" /\ data = ExactTag(k) /\ ret.s.done)
      => ret.s.r.err = Nil /\ Cardinality(DOMAIN ret.s.r.frames) = k

\* C28: after a "----" atom that readCustomAtom rejects without error (mean
\* is not com.apple.iTunes, the name is empty, or there is no data
\* sub-atom), readAtoms goes on at the end of that atom: the title atom
\* that follows it is decoded, and it is all the Metadata holds
SiblingOfRejectedAtomRead ==
  \A m \in CustomMeans, n \in CustomNames, v \in CustomValues :
    (op = "MP4" /\ entry = 0 /\ data = SiblingFile(m, n, v)
       /\ (m # Lit.com_apple_iTunes \/ n = <<>> \/ v = <<>>))
      => ret.err = Nil /\ ret.meta.data = (AtomKey.nam :> StringVal(<<65>>))

\* C29: called at the end of the ID3v2 tag (offset 10 + header size),
\* sizeToEndOffset leaves the stream there and returns the number of bytes
\* from there to 128 bytes before the end; so Sum of a stream with an ID3v2
\* tag is the digest of exactly these bytes.  Stated for the payloads of at
\* least 128 bytes, for which the range is not empty or negative.
SumID3v2HashesAudio ==
  \A s \in {"id3v2", "id3v2x"} :
    (Done("Sum", s) /\ Len(payload) >= 128) =>
      \A d \in {SumStreams(payload)[s]} : \A q \in {10 + Len(FrameArea(84))} :
        /\ sizeToEndOffset(d, q).err = Nil
        /\ sizeToEndOffset(d, q).pos = q
        /\ sizeToEndOffset(d, q).n = Len(d) - 128 - q
        /\ Result("Sum", s) = [err |-> FALSE, sum |-> sha1(Slice(d, q, Len(d) - 128))]

\* ------------------------- the two-byte-lookahead filter (id3v2.go, Read)
\* Unsynchroniser.Read(p) from the loop index i on: u is the input of
\* r.orig, q its read position, prev is r.prevWasFF; p is indexed from 1
\* here, so p[i + 1] is the code's p[i].  A read of two bytes that delivers
\* one leaves p[i + 1] of the code as the caller passed it.
RECURSIVE Unsynchroniser_Read(_, _, _, _, _)
Unsynchroniser_Read(u, q, prev, p, i) ==
  LET return(n, e, at, pw, buf) == [n |-> n, err |-> e, pos |-> at, prevWasFF |-> pw, p |-> SubSeq(buf, 1, n)]
  IN  IF i >= Len(p) THEN return(Len(p), Nil, q, prev, p)
      ELSE IF i = Len(p) - 1
      THEN With(Read(u, q, 1), LAMBDA r :
             With(Overwrite(SubSeq(p, i + 1, Len(p)), r.b), LAMBDA last :
               IF r.n = 0 \/ r.err # Nil THEN return(i, r.err, r.pos, prev, p)
               ELSE IF prev /\ last[1] = 0
               THEN IF i = 0 THEN return(0, Panic, r.pos, FALSE, <<>>)
                    ELSE Unsynchroniser_Read(u, r.pos, p[i] = 255, SubSeq(p, 1, i) \o last, i)
               ELSE Unsynchroniser_Read(u, r.pos, last[1] = 255, SubSeq(p, 1, i) \o last, i + 1)))
      ELSE With(Read(u, q, 2), LAMBDA r :
             With(SubSeq(p, 1, i) \o Overwrite(SubSeq(p, i + 1, Len(p)), r.b), LAMBDA p1 :
               IF r.n = 0 \/ r.err # Nil THEN return(i, r.err, r.pos, prev, p)
               ELSE IF prev /\ p1[i + 1] = 0
               THEN Unsynchroniser_Read(u, r.pos, p1[i + 2] = 255, [p1 EXCEPT ![i + 1] = p1[i + 2]], i + 1)
               ELSE IF p1[i + 1] = 255 /\ p1[i + 2] = 0
               THEN Unsynchroniser_Read(u, r.pos, FALSE, p1, i + 1)
               ELSE Unsynchroniser_Read(u, r.pos, p1[i + 2] = 255, p1, i + 2)))

\* what a caller's buffer may hold before the call
BufferFill == {0, 255}

\* an Unsynchroniser (its position, prevWasFF, the bytes it has delivered
\* and what its latest Read returned are kept in ret) and an unsynchroniser
\* on two readers of the same input
LookaheadInit ==
  /\ uin \in SeqsUpTo(UnsyncBytes, MaxInput)
  /\ upos = 0
  /\ ff = FALSE
  /\ out = <<>>
  /\ lastLen = 0
  /\ lastN = 0
  /\ lastErr = Nil
  /\ data = <<>>
  /\ pos = 0
  /\ op = "idle"
  /\ entry = 0
  /\ ret = [pos |-> 0, prevWasFF |-> FALSE, out |-> <<>>, n |-> 0, err |-> Nil]
  /\ acc = NoAcc
  /\ SumIdle

\* one Read with a buffer of the same length on each of the two filters
ReadBoth ==
  \E k \in 1..MaxBuf, fill \in BufferFill :
    \E r \in {UnsynchroniserRead(uin, upos, ff, k)} :
      \E o \in {Unsynchroniser_Read(uin, ret.pos, ret.prevWasFF, [i \in 1..k |-> fill], 0)} :
        /\ lastErr = Nil
        /\ ret.err = Nil
        /\ upos' = r.pos
        /\ ff' = r.ff
        /\ out' = out \o r.p
        /\ lastLen' = k
        /\ lastN' = r.n
        /\ lastErr' = r.err
        /\ ret' = [pos |-> o.pos, prevWasFF |-> o.prevWasFF, out |-> ret.out \o o.p, n |-> o.n, err |-> o.err]
        /\ UNCHANGED <<uin, data, pos, op, entry, acc, svars>>

SpecLookahead == LookaheadInit /\ [][ReadBoth]_vars

\* C30: read with the same buffer lengths from the same input, the
\* two-byte-lookahead filter and the byte-at-a-time filter return the same
\* count and error in every call and have delivered the same bytes; in
\* particular the lookahead filter does not panic on an index outside p
LookaheadEquivalent ==
  /\ ret.n = lastN
  /\ ret.err = lastErr
  /\ ret.out = out
====
